---- MODULE Spec2Model ----
(***************************************************************************)
(* Model of the tk-houdini node handlers: a cache export node (alembic /   *)
(* geometry ROP), its Shotgun parameters, the version menu, the file path  *)
(* refresh and the remove / restore cycle of the sgtk parameters; a file   *)
(* import node with its publishes in Shotgun, its version policies and the *)
(* versions of a path on disk; and the event scripts of houdini/scripts.   *)
(*                                                                         *)
(* Strings that the code parses or formats (parameter values, the comma    *)
(* separated version list, menu tokens) are sequences of one-character     *)
(* strings, so that str(), int(), split(), join(), strip() and the regular *)
(* expression are computed and not assumed.                                *)
(***************************************************************************)
EXTENDS Integers, Sequences, FiniteSets, TLC

VARIABLES
    node,        \* the hou.Node: which parameters exist and their values
    disk,        \* the files on disk
    extra_args,  \* the handler's extra_args setting (key -> template name)
    raised,      \* the exception that escaped the last operation, or "none"
    lastOp,      \* the last operation and its arguments
    ret,         \* the value the last operation returned
    warned,      \* whether the last operation showed a warning message box
    rv,          \* version resolution on its own: inputs and result
    cls,         \* the handler classes: attributes set by __new__, settings reads
    inode,       \* an import node: the values of its parameters
    shotgun,     \* the PublishedFile entities of the publish the node loads
    scene,       \* the other node of the scene that the Work tab refers to
    files,       \* the paths on disk that the Work and File tabs scan
    ev           \* the run of a Houdini event script

import == <<inode, shotgun, scene, files, ev>>
harness == <<rv, cls, inode, shotgun, scene, files, ev>>
vars == <<node, disk, extra_args, raised, lastOp, ret, warned, rv, cls,
          inode, shotgun, scene, files, ev>>

----------------------------------------------------------------------------
(* Bounds of the model.                                                    *)

MaxVersion == 2    \* highest version number a file on disk can carry
MaxFiles == 2      \* most files on disk at once
MaxLen == 3        \* longest version list given to the pure functions
MaxCurrent == 4    \* highest number typed as the current version

----------------------------------------------------------------------------
(* Python string and list primitives.                                      *)

Digits == <<"0", "1", "2", "3", "4", "5", "6", "7", "8", "9">>
DigitSet == {Digits[i] : i \in 1..10}
LetterSet == {"a", "b", "x"}

DigitValue(c) == (CHOOSE i \in 1..10 : Digits[i] = c) - 1

RECURSIVE str(_)
\* str(int) of a non-negative integer: its decimal digits
str(n) == IF n < 10 THEN <<Digits[n + 1]>>
          ELSE str(n \div 10) \o <<Digits[(n % 10) + 1]>>

IsNumeric(s) == Len(s) > 0 /\ \A i \in 1..Len(s) : s[i] \in DigitSet

RECURSIVE int(_)
\* int(str) of a string of decimal digits (ValueError otherwise, see IsNumeric)
int(s) == IF Len(s) = 0 THEN 0
          ELSE 10 * int(SubSeq(s, 1, Len(s) - 1)) + DigitValue(s[Len(s)])

RECURSIVE join(_, _)
\* sep.join(parts)
join(sep, parts) ==
    IF Len(parts) = 0 THEN <<>>
    ELSE IF Len(parts) = 1 THEN parts[1]
    ELSE parts[1] \o sep \o join(sep, Tail(parts))

RECURSIVE split(_, _)
\* s.split(c): the pieces of s between the occurrences of the character c
split(s, c) ==
    IF \A i \in 1..Len(s) : s[i] # c THEN <<s>>
    ELSE LET k == CHOOSE i \in 1..Len(s) :
                      s[i] = c /\ \A j \in 1..(i - 1) : s[j] # c
         IN <<SubSeq(s, 1, k - 1)>> \o split(SubSeq(s, k + 1, Len(s)), c)

RECURSIVE strip(_)
\* s.strip(): leading and trailing blanks removed
strip(s) ==
    IF Len(s) = 0 THEN s
    ELSE IF s[1] = " " THEN strip(Tail(s))
    ELSE IF s[Len(s)] = " " THEN strip(SubSeq(s, 1, Len(s) - 1))
    ELSE s

Map(f(_), s) == [i \in 1..Len(s) |-> f(s[i])]

RECURSIVE FilterNone(_)
\* filter(None, parts): the non-empty strings
FilterNone(parts) ==
    IF Len(parts) = 0 THEN <<>>
    ELSE IF Len(parts[1]) = 0 THEN FilterNone(Tail(parts))
    ELSE <<parts[1]>> \o FilterNone(Tail(parts))

Elems(s) == {s[i] : i \in 1..Len(s)}
Max(S) == CHOOSE m \in S : \A x \in S : x <= m

RECURSIVE SortedSeq(_)
SortedSeq(S) == IF S = {} THEN <<>>
                ELSE LET m == CHOOSE x \in S : \A y \in S : x <= y
                     IN <<m>> \o SortedSeq(S \ {m})

\* list.index(x): the position (from 0) of the first occurrence
IndexOf(s, x) == (CHOOSE i \in 1..Len(s) : s[i] = x /\ \A j \in 1..(i - 1) : s[j] # x) - 1

----------------------------------------------------------------------------
(* ExportNodeHandler: constants and version resolution.                    *)

DEFAULT_ERROR_STRING == "'Element' not specified"
NEXT_VERSION_STR == <<"<", "N", "E", "X", "T", ">">>
VERSION_POLICIES == <<NEXT_VERSION_STR>>

\* max(all_versions or [0]) + 1
NextVersion(all_versions) ==
    IF Len(all_versions) = 0 THEN 1 ELSE Max(Elems(all_versions)) + 1

\* int(current) raises ValueError for a string that is no number
resolve_version_raises(all_versions, current) ==
    current # NEXT_VERSION_STR /\ ~IsNumeric(current)

\* faulty variant: an unknown version number is returned as typed
resolve_version_unchecked(all_versions, current) ==
    IF current # NEXT_VERSION_STR THEN int(current)
    ELSE NextVersion(all_versions)

_resolve_version(all_versions, current) ==
    IF current # NEXT_VERSION_STR
    THEN LET resolved == int(current)
             every_version == all_versions \o <<NextVersion(all_versions)>>
         IN IF resolved \notin Elems(every_version)
            THEN Max(Elems(every_version))
            ELSE resolved
    ELSE NextVersion(all_versions)

----------------------------------------------------------------------------
(* sgtk templates and paths.                                               *)
(* A path is either the result of Template.apply_fields (kind "tmpl": the  *)
(* template and the field values it was built from) or any other text      *)
(* (kind "raw").                                                           *)

_work_template == "work"
_publish_template == "publish"
EngineTemplates == {"work", "publish", "seq_work", "seq_publish"}
ExtraArgKeys == {"seq_work_template", "seq_publish_template"}

NoStr == <<>>
ElementA == <<"a">>

RawPath(text) ==
    [kind |-> "raw", tmpl |-> "", name |-> NoStr, location |-> NoStr,
     variation |-> NoStr, version |-> 0, text |-> text]

\* template.keys.get("SEQ")
HasSEQ(template) == template \in {"seq_work", "seq_publish"}

\* Template.apply_fields raises TankError when the required key 'name' is missing
apply_fields_raises(template, fields) == fields.name = NoStr

apply_fields(template, fields) ==
    [kind |-> "tmpl", tmpl |-> template, name |-> fields.name,
     location |-> fields.location, variation |-> fields.variation,
     version |-> fields.version, text |-> ""]

\* Template.validate(path)
validate(template, path) == path.kind = "tmpl" /\ path.tmpl = template

\* get_optional_keys(template): 'location' and 'variation' are the optional keys
get_optional_keys(template) == {"location", "variation"}

\* Template.validate_and_get_fields(path, skip_keys=optional keys): the skipped
\* keys are not extracted
validate_and_get_fields(template, path) ==
    [name |-> path.name, location |-> NoStr, variation |-> NoStr,
     version |-> path.version, SEQ |-> HasSEQ(template)]

\* NodeHandlerBase._get_template: TankError when extra_args has no such key or
\* the engine has no template of that name
_get_template_raises(args, template_name) ==
    args[template_name] = "" \/ args[template_name] \notin EngineTemplates

_get_template(args, template_name) == args[template_name]

----------------------------------------------------------------------------
(* The files on disk.                                                      *)

\* a sequence file is of the frame the scene is at or of another frame; a
\* single file has no frame
Frames == {"current", "other"}
CurrentFrame == "current"
SingleFile == "none"

File(template, name, version, frame) ==
    [tmpl |-> template, name |-> name, location |-> NoStr, variation |-> NoStr,
     version |-> version, frame |-> frame]

FileUniverse ==
    {File("work", ElementA, v, SingleFile) : v \in 1..MaxVersion}
    \cup {File("seq_work", ElementA, v, f) : v \in 1..MaxVersion, f \in Frames}

SameSequence(file, template, fields) ==
    /\ file.tmpl = template
    /\ file.name = fields.name
    /\ file.location = fields.location
    /\ file.variation = fields.variation

\* the versions for which a file of the template with these fields is on disk
_resolve_all_versions_from_fields(d, fields, template) ==
    SortedSeq({file.version : file \in {x \in d : SameSequence(x, template, fields)}})

----------------------------------------------------------------------------
(* The node: which parameters exist, and their values.                     *)

\* AlembicNodeHandler._create_sgtk_parms: Single File is on by default
SINGLE_FILE_DEFAULT == TRUE

\* the values of the parameters of a newly built sgtk folder
DefaultFolderParms(n) ==
    [n EXCEPT !.use_sgtk = TRUE,
              !.sgtk_element = NoStr,
              !.sgtk_location = NoStr,
              !.sgtk_variation = NoStr,
              !.sgtk_all_versions = NoStr,
              !.sgtk_version = 0,
              !.sgtk_resolved_version = str(1),
              !.sgtk_single_frame = SINGLE_FILE_DEFAULT]

\* a node no handler has touched: none of the sgtk parameters exist
BareNode ==
    [sgtk_identifier |-> FALSE, has_folder |-> FALSE,
     use_sgtk |-> FALSE, sgtk_element |-> NoStr, sgtk_location |-> NoStr,
     sgtk_variation |-> NoStr, sgtk_all_versions |-> NoStr, sgtk_version |-> 0,
     sgtk_resolved_version |-> NoStr, sgtk_single_frame |-> FALSE,
     sgtk_using_next_version |-> FALSE,
     sgtk_optional_keys |-> [location |-> NoStr, variation |-> NoStr],
     output |-> RawPath("out.abc"), locked |-> FALSE]

\* NodeHandlerBase._get_all_versions
_get_all_versions(n) ==
    Map(int, FilterNone(split(n.sgtk_all_versions, ",")))

\* the tokens of the version menu (the item generator is populate_versions)
menuItems(n) == Map(str, _get_all_versions(n)) \o VERSION_POLICIES

\* what the host may evaluate a menu index beyond the menu to: the index as a
\* number, or the empty string
Hosts == {"index", "empty"}

\* hou.Parm.evalAsString of the version menu
evalAsString(n, host) ==
    IF n.sgtk_version < Len(menuItems(n))
    THEN menuItems(n)[n.sgtk_version + 1]
    ELSE IF host = "index" THEN str(n.sgtk_version) ELSE NoStr

\* hou.Parm.set(token) of the version menu
setToken(n, token) ==
    IF token \in Elems(menuItems(n))
    THEN [n EXCEPT !.sgtk_version = IndexOf(menuItems(n), token)]
    ELSE n

----------------------------------------------------------------------------
(* BaseCacheNodeHandler: the template in use.                              *)

_is_single_frame(n) == IF n.has_folder THEN n.sgtk_single_frame ELSE TRUE

get_work_template_raises(n, args) ==
    ~_is_single_frame(n) /\ _get_template_raises(args, "seq_work_template")

get_work_template(n, args) ==
    IF _is_single_frame(n) THEN _work_template
    ELSE _get_template(args, "seq_work_template")

get_publish_template_raises(n, args) ==
    ~_is_single_frame(n) /\ _get_template_raises(args, "seq_publish_template")

get_publish_template(n, args) ==
    IF _is_single_frame(n) THEN _publish_template
    ELSE _get_template(args, "seq_publish_template")

----------------------------------------------------------------------------
(* ExportNodeHandler: the file path refresh.                               *)

\* the parameter writes of _update_template_fields: without an element there
\* is no location and no variation
_update_template_fields(n) ==
    IF strip(n.sgtk_element) # NoStr THEN n
    ELSE [n EXCEPT !.sgtk_location = NoStr, !.sgtk_variation = NoStr]

\* the fields _update_template_fields fills in (an empty name is a missing key)
template_fields(n) ==
    [name |-> strip(n.sgtk_element),
     location |-> strip(n.sgtk_location),
     variation |-> strip(n.sgtk_variation),
     version |-> 0, SEQ |-> TRUE]

_update_optional_keys(n, fields) ==
    IF n.sgtk_identifier
    THEN [n EXCEPT !.sgtk_optional_keys =
                       [location |-> fields.location, variation |-> fields.variation]]
    ELSE n

\* faulty variant: the stored list is never rewritten
_update_all_versions_stale(n, all_versions) == n

_update_all_versions(n, all_versions) ==
    IF all_versions # _get_all_versions(n)
    THEN [n EXCEPT !.sgtk_all_versions = join(<<",">>, Map(str, all_versions))]
    ELSE n

Outcome(n, exception) == [node |-> n, raised |-> exception]

\* _refresh_file_path, last part: the selected entry is resolved and stored,
\* and the path is written; a TankError while the template is applied gives the
\* placeholder
refresh_resolved_version(n, current, fields, all_versions, args) ==
    IF resolve_version_raises(all_versions, current)
    THEN Outcome(n, "ValueError")
    ELSE
    LET resolved_version == _resolve_version(all_versions, current)
        fields2 == [fields EXCEPT !.version = resolved_version]
        new_path ==
            IF \/ get_work_template_raises(n, args)
               \/ apply_fields_raises(get_work_template(n, args), fields2)
            THEN RawPath(DEFAULT_ERROR_STRING)
            ELSE apply_fields(get_work_template(n, args), fields2)
    IN  Outcome([n EXCEPT !.sgtk_resolved_version = str(resolved_version),
                          !.output = new_path,
                          !.locked = TRUE], "none")

\* _refresh_file_path, third part: the <NEXT> policy is stored and, when in
\* use, selected again
refresh_using_next(n, using_next, fields, all_versions, args, host) ==
    LET n5 == IF ~n.sgtk_identifier THEN n
              ELSE IF using_next
              THEN [n EXCEPT !.sgtk_using_next_version = TRUE,
                             !.sgtk_version = Len(all_versions)]
              ELSE [n EXCEPT !.sgtk_using_next_version = FALSE]
    IN  refresh_resolved_version(n5, evalAsString(n5, host), fields, all_versions, args)

\* _refresh_file_path, second part: the version list is stored and the entry
\* selected before is kept when the menu still has it
refresh_version_menu(n, value_before_update, fields, all_versions, args, host) ==
    LET n3 == _update_all_versions(n, all_versions)
        current == IF value_before_update \in Elems(menuItems(n3))
                   THEN value_before_update
                   ELSE evalAsString(n3, host)
    IN  refresh_using_next(setToken(n3, current), current \in Elems(VERSION_POLICIES),
                           fields, all_versions, args, host)

\* _refresh_file_path, first part: the fields and the versions on disk
refresh_fields(n, fields, template, d, args, host) ==
    refresh_version_menu(_update_optional_keys(n, fields),
                         evalAsString(n, host), fields,
                         _resolve_all_versions_from_fields(d, fields, template),
                         args, host)

_refresh_file_path(n, d, args, host) ==
    IF get_work_template_raises(n, args) THEN Outcome(n, "TankError")
    ELSE IF ~n.has_folder THEN Outcome(n, "AttributeError")
    ELSE refresh_fields(_update_template_fields(n),
                        template_fields(_update_template_fields(n)),
                        get_work_template(n, args), d, args, host)

----------------------------------------------------------------------------
(* ExportNodeHandler: input validation.                                    *)

\* re.match(r"^[a-zA-Z0-9]*$", input_value)
_validate_input(input_value) ==
    \A i \in 1..Len(input_value) : input_value[i] \in LetterSet \cup DigitSet

ParmNames == {"sgtk_element", "sgtk_location", "sgtk_variation"}

parmValue(n, parm) ==
    IF parm = "sgtk_element" THEN n.sgtk_element
    ELSE IF parm = "sgtk_location" THEN n.sgtk_location
    ELSE n.sgtk_variation

parmSet(n, parm, value) ==
    IF parm = "sgtk_element" THEN [n EXCEPT !.sgtk_element = value]
    ELSE IF parm = "sgtk_location" THEN [n EXCEPT !.sgtk_location = value]
    ELSE [n EXCEPT !.sgtk_variation = value]

\* faulty variant: every input passes
_validate_parm_lenient(n, parm) == TRUE

\* the result of _validate_parm: whether the parameter's stripped value is valid
_validate_parm(n, parm) == _validate_input(strip(parmValue(n, parm)))

\* validate_parm_and_refresh_path: the outcome and whether a box was shown
validate_parm_and_refresh_path(n, parm, d, args, host) ==
    IF _validate_parm(n, parm)
    THEN [out |-> _refresh_file_path(n, d, args, host), warned |-> FALSE]
    ELSE [out |-> Outcome(parmSet(n, parm, NoStr), "none"), warned |-> TRUE]

----------------------------------------------------------------------------
(* Adding, removing and restoring the sgtk parameters.                     *)

\* ExportNodeHandler._enable_sgtk
_enable_sgtk(n, sgtk_enabled) == [n EXCEPT !.locked = sgtk_enabled]

\* the node without the parameters of the sgtk folder
WithoutFolder(n) ==
    [n EXCEPT !.has_folder = FALSE,
              !.use_sgtk = BareNode.use_sgtk,
              !.sgtk_element = BareNode.sgtk_element,
              !.sgtk_location = BareNode.sgtk_location,
              !.sgtk_variation = BareNode.sgtk_variation,
              !.sgtk_all_versions = BareNode.sgtk_all_versions,
              !.sgtk_version = BareNode.sgtk_version,
              !.sgtk_resolved_version = BareNode.sgtk_resolved_version,
              !.sgtk_single_frame = BareNode.sgtk_single_frame]

\* faulty variant: the parameters are removed from an untouched node too
remove_sgtk_parms_always(n) ==
    [node |-> WithoutFolder(_enable_sgtk([n EXCEPT !.use_sgtk = FALSE], FALSE)),
     removed |-> TRUE]

\* remove_sgtk_parms: the node afterwards and the value returned
remove_sgtk_parms(n) ==
    IF ~n.has_folder THEN [node |-> n, removed |-> FALSE]
    ELSE [node |-> WithoutFolder(_enable_sgtk([n EXCEPT !.use_sgtk = FALSE], FALSE)),
          removed |-> TRUE]

\* add_sgtk_parms on a node without the sgtk folder: _set_up_parms writes the
\* placeholder and locks; parameters that already exist keep their values
add_sgtk_parms(n) ==
    LET n1 == [n EXCEPT !.output = RawPath(DEFAULT_ERROR_STRING), !.locked = TRUE]
        n2 == IF n1.sgtk_identifier THEN n1
              ELSE [n1 EXCEPT !.sgtk_identifier = TRUE,
                              !.sgtk_using_next_version = TRUE,
                              !.sgtk_optional_keys =
                                  [location |-> NoStr, variation |-> NoStr]]
    IN  DefaultFolderParms([n2 EXCEPT !.has_folder = TRUE])

\* BaseCacheNodeHandler._get_template_for_file_path
_get_template_for_file_path_raises(args, file_path) ==
    ~validate(_work_template, file_path)
    /\ _get_template_raises(args, "seq_work_template")

_get_template_for_file_path(args, file_path) ==
    IF validate(_work_template, file_path) THEN _work_template
    ELSE _get_template(args, "seq_work_template")

\* faulty variant: the toggle is set when the fields do hold 'SEQ'
_populate_from_fields_inverted(n, fields) ==
    [n EXCEPT !.sgtk_element = fields.name,
              !.sgtk_location = fields.location,
              !.sgtk_variation = fields.variation,
              !.sgtk_single_frame = fields.SEQ]

\* ExportNodeHandler._populate_from_fields and BaseCacheNodeHandler's override
_populate_from_fields(n, fields) ==
    [n EXCEPT !.sgtk_element = fields.name,
              !.sgtk_location = fields.location,
              !.sgtk_variation = fields.variation,
              !.sgtk_single_frame = ~fields.SEQ]

_set_version(n, current_version) ==
    LET version_str == str(current_version)
        entries == menuItems(n)
        index == IF n.sgtk_identifier /\ n.sgtk_using_next_version
                 THEN IF NEXT_VERSION_STR \in Elems(entries)
                      THEN IndexOf(entries, NEXT_VERSION_STR)
                      ELSE Len(entries)
                 ELSE IF version_str \in Elems(entries)
                 THEN IndexOf(entries, version_str)
                 ELSE Len(entries)
    IN  [n EXCEPT !.sgtk_version = index]

\* _get_optional_fields: the fields stored in sgtk_optional_keys
_get_optional_fields(n) ==
    IF n.sgtk_identifier THEN n.sgtk_optional_keys
    ELSE [location |-> NoStr, variation |-> NoStr]

\* faulty variant: the node is populated whether or not the path matches
_populate_from_file_path_forced(n, file_path, d, args, host) ==
    _refresh_file_path(
        _populate_from_fields(n, validate_and_get_fields(_work_template, file_path)),
        d, args, host)

_populate_from_file_path(n, file_path, d, args, host) ==
    IF _get_template_for_file_path_raises(args, file_path)
    THEN Outcome(n, "TankError")
    ELSE
    LET template == _get_template_for_file_path(args, file_path)
    IN  IF validate(template, file_path)
        THEN LET parsed == validate_and_get_fields(template, file_path)
                 fields == [parsed EXCEPT
                               !.location = _get_optional_fields(n).location,
                               !.variation = _get_optional_fields(n).variation]
                 all_versions == _resolve_all_versions_from_fields(d, fields, template)
                 n1 == _populate_from_fields(n, fields)
                 n2 == _update_all_versions(n1, all_versions)
                 n3 == _set_version(n2, fields.version)
             IN  _refresh_file_path(n3, d, args, host)
        ELSE Outcome([_enable_sgtk([n EXCEPT !.use_sgtk = FALSE], FALSE)
                          EXCEPT !.output = file_path], "none")

_restore_sgtk_parms(n, d, args, host) ==
    _populate_from_file_path(add_sgtk_parms(n), n.output, d, args, host)

\* faulty variant: the parameters are rebuilt on every call
restore_sgtk_parms_always(n, d, args, host) ==
    _restore_sgtk_parms(WithoutFolder(n), d, args, host)

restore_sgtk_parms(n, d, args, host) ==
    IF n.sgtk_identifier /\ ~n.has_folder
    THEN _restore_sgtk_parms(n, d, args, host)
    ELSE Outcome(n, "none")

----------------------------------------------------------------------------
(* ExportNodeHandler: the output paths handed to the publisher.            *)

\* os.path.exists of a path evaluated at the current frame
exists(d, path) ==
    \E file \in d :
        /\ path.kind = "tmpl"
        /\ SameSequence(file, path.tmpl, path)
        /\ file.version = path.version
        /\ file.frame = (IF HasSEQ(path.tmpl) THEN CurrentFrame ELSE SingleFile)

\* _get_sequence_paths: the files of every frame, when the fields hold 'SEQ'
_get_sequence_paths(d, path, template) ==
    IF HasSEQ(template)
    THEN {file \in d : SameSequence(file, template, path)
                       /\ file.version = path.version}
    ELSE {}

Item(work_template, publish_template, path, sequence_paths) ==
    [keys |-> {"work_template", "publish_template", "path"}
              \cup (IF sequence_paths # {} THEN {"sequence_paths"} ELSE {}),
     work_template |-> work_template, publish_template |-> publish_template,
     path |-> path, sequence_paths |-> sequence_paths]

\* faulty variant: the path is kept although nothing is on disk
_get_output_path_and_templates_for_parm_kept(n, d, work_template, publish_template) ==
    <<Item(work_template, publish_template, n.output,
           _get_sequence_paths(d, n.output, work_template))>>

\* the entries _get_output_path_and_templates_for_parm appends
_get_output_path_and_templates_for_parm(n, d, work_template, publish_template) ==
    LET path == n.output
        sequence_paths == _get_sequence_paths(d, path, work_template)
    IN  IF sequence_paths # {}
        THEN <<Item(work_template, publish_template, path, sequence_paths)>>
        ELSE IF ~exists(d, path)
        THEN LET all_versions == _get_all_versions(n)
             IN  IF Len(all_versions) = 0 THEN <<>>
                 ELSE LET last == [path EXCEPT !.version = Max(Elems(all_versions))]
                      IN  <<Item(work_template, publish_template, last,
                                 _get_sequence_paths(d, last, work_template))>>
        ELSE <<Item(work_template, publish_template, path, {})>>

\* get_output_paths_and_templates: Template.get_fields raises TankError for a
\* path that is not of the work template
get_output_paths_and_templates_raises(n, args) ==
    /\ n.has_folder /\ n.use_sgtk
    /\ \/ get_work_template_raises(n, args)
       \/ get_publish_template_raises(n, args)
       \/ ~validate(get_work_template(n, args), n.output)

get_output_paths_and_templates(n, d, args) ==
    IF n.has_folder /\ n.use_sgtk
    THEN _get_output_path_and_templates_for_parm(
             n, d, get_work_template(n, args), get_publish_template(n, args))
    ELSE <<>>

----------------------------------------------------------------------------
(* The state machine of one export node.                                   *)

\* what the user types into Element, Location and Variation
Typed(parm) ==
    IF parm = "sgtk_element"
    THEN {NoStr, ElementA, <<"a", "-">>}
    ELSE IF parm = "sgtk_location" THEN {NoStr, <<"-">>}
    ELSE {NoStr, <<" ", "x">>}

\* what the user types into the unlocked output parameter
UserPaths ==
    {RawPath("out.abc")}
    \cup {apply_fields(t, [name |-> ElementA, location |-> NoStr,
                           variation |-> NoStr, version |-> v])
             : t \in {"work", "seq_work"}, v \in 1..MaxVersion}

\* the extra_args settings: complete, or naming a sequence work template the
\* engine does not have and no sequence publish template
ExtraArgsChoices ==
    {[k \in ExtraArgKeys |-> IF k = "seq_work_template" THEN "seq_work" ELSE "seq_publish"],
     [k \in ExtraArgKeys |-> IF k = "seq_work_template" THEN "ghost" ELSE ""]}

NoRet == [removed |-> FALSE, items |-> <<>>]
NoRv == [all_versions |-> <<>>, current |-> NoStr, result |-> 0, done |-> FALSE]
NoCls == <<>>
Unused == <<>>

\* the import node and the event scripts take no part
ImportIdle ==
    /\ inode = Unused
    /\ shotgun = Unused
    /\ scene = Unused
    /\ files = Unused
    /\ ev = Unused
Op(op, parm) == [op |-> op, parm |-> parm, value |-> NoStr]

\* the calls an operation made to one method, as the value of its record
Calls(method, times) == [i \in 1..times |-> method]

Init ==
    /\ node = BareNode
    /\ disk = {}
    /\ extra_args \in ExtraArgsChoices
    /\ raised = "none"
    /\ lastOp = Op("init", "")
    /\ ret = NoRet
    /\ warned = FALSE
    /\ rv = NoRv
    /\ cls = NoCls
    /\ ImportIdle

\* the outcome of a handler call
Finish(op, out) ==
    /\ node' = out.node
    /\ raised' = out.raised
    /\ lastOp' = op
    /\ ret' = NoRet
    /\ warned' = FALSE
    /\ UNCHANGED <<disk, extra_args, harness>>

\* the outcome of a validating callback, which may show a message box
FinishValidate(op, r) ==
    /\ node' = r.out.node
    /\ raised' = r.out.raised
    /\ warned' = r.warned
    /\ lastOp' = op
    /\ ret' = NoRet
    /\ UNCHANGED <<disk, extra_args, harness>>

\* the outcome of a call that returns a value and raises nothing
FinishReturn(op, n, value) ==
    /\ node' = n
    /\ ret' = value
    /\ raised' = "none"
    /\ lastOp' = op
    /\ warned' = FALSE
    /\ UNCHANGED <<disk, extra_args, harness>>

\* OnCreated event: on_created adds the sgtk parameters
OnCreated ==
    /\ ~node.sgtk_identifier /\ ~node.has_folder
    /\ Finish(Op("on_created", ""), Outcome(add_sgtk_parms(node), "none"))

\* OnLoaded event: on_loaded refreshes the file path
OnLoaded ==
    \E host \in Hosts :
        Finish(Op("on_loaded", ""), _refresh_file_path(node, disk, extra_args, host))

\* the user edits Element, Location or Variation; their callback is
\* validate_parm_and_refresh_path
EditParm ==
    \E parm \in ParmNames, host \in Hosts :
    \E value \in Typed(parm) :
        /\ node.has_folder /\ node.use_sgtk
        /\ parm = "sgtk_element" \/ node.sgtk_element # NoStr
        /\ FinishValidate(
               [Op("validate_parm_and_refresh_path", parm) EXCEPT !.value = value],
               validate_parm_and_refresh_path(
                   parmSet(node, parm, value), parm, disk, extra_args, host))

\* refresh_file_path_from_version
refresh_file_path_from_version(n, d, args, host) ==
    _refresh_file_path(
        [n EXCEPT !.sgtk_using_next_version =
                      evalAsString(n, host) \in Elems(VERSION_POLICIES)],
        d, args, host)

\* the user picks an entry of the version menu
SelectVersion ==
    \E host \in Hosts :
    \E i \in 0..(Len(menuItems(node)) - 1) :
        /\ node.has_folder /\ node.use_sgtk
        /\ Finish(Op("refresh_file_path_from_version", "sgtk_version"),
                  refresh_file_path_from_version(
                      [node EXCEPT !.sgtk_version = i], disk, extra_args, host))

\* the user presses Refresh Versions
PressRefresh ==
    \E host \in Hosts :
        /\ node.has_folder /\ node.use_sgtk /\ node.sgtk_element # NoStr
        /\ Finish(Op("refresh_file_path_from_version", "sgtk_refresh_versions"),
                  refresh_file_path_from_version(node, disk, extra_args, host))

\* the user toggles Single File; its callback is refresh_file_path
ToggleSingleFrame ==
    \E host \in Hosts :
        /\ node.has_folder /\ node.use_sgtk
        /\ Finish(Op("refresh_file_path", "sgtk_single_frame"),
                  _refresh_file_path(
                      [node EXCEPT !.sgtk_single_frame = ~node.sgtk_single_frame],
                      disk, extra_args, host))

\* enable_sgtk
enable_sgtk(n, d, args, host) ==
    IF n.use_sgtk
    THEN _refresh_file_path(_enable_sgtk(n, TRUE), d, args, host)
    ELSE Outcome(_enable_sgtk(n, FALSE), "none")

\* the user toggles Use Shotgun; its callback is enable_sgtk
ToggleUseSgtk ==
    \E host \in Hosts :
        /\ node.has_folder
        /\ Finish(Op("enable_sgtk", "use_sgtk"),
                  enable_sgtk([node EXCEPT !.use_sgtk = ~node.use_sgtk],
                              disk, extra_args, host))

\* the user types a path into the unlocked output parameter
EditOutput ==
    \E path \in UserPaths :
        /\ ~node.locked
        /\ path # node.output
        /\ Finish(Op("edit_output", ""), Outcome([node EXCEPT !.output = path], "none"))

RemoveSgtkParms ==
    FinishReturn(Op("remove_sgtk_parms", ""),
                 remove_sgtk_parms(node).node,
                 [NoRet EXCEPT !.removed = remove_sgtk_parms(node).removed])

RestoreSgtkParms ==
    \E host \in Hosts :
        Finish(Op("restore_sgtk_parms", ""),
               restore_sgtk_parms(node, disk, extra_args, host))

GetOutputPaths ==
    /\ raised' = IF get_output_paths_and_templates_raises(node, extra_args)
                 THEN "TankError" ELSE "none"
    /\ ret' = IF get_output_paths_and_templates_raises(node, extra_args)
              THEN NoRet
              ELSE [NoRet EXCEPT !.items =
                        get_output_paths_and_templates(node, disk, extra_args)]
    /\ lastOp' = Op("get_output_paths_and_templates", "")
    /\ warned' = FALSE
    /\ UNCHANGED <<node, disk, extra_args, harness>>

\* a file is written to disk (a render, or another artist's)
WriteFile ==
    \E file \in FileUniverse \ disk :
        /\ Cardinality(disk) < MaxFiles
        /\ disk' = disk \cup {file}
        /\ raised' = "none" /\ lastOp' = Op("write_file", "")
        /\ ret' = NoRet /\ warned' = FALSE
        /\ UNCHANGED <<node, extra_args, harness>>

\* a file is deleted from disk
DeleteFile ==
    \E file \in disk :
        /\ disk' = disk \ {file}
        /\ raised' = "none" /\ lastOp' = Op("delete_file", "")
        /\ ret' = NoRet /\ warned' = FALSE
        /\ UNCHANGED <<node, extra_args, harness>>

\* an editing session: the artist works on the node while files come and go
Next ==
    \/ OnCreated
    \/ OnLoaded
    \/ EditParm
    \/ SelectVersion
    \/ PressRefresh
    \/ ToggleSingleFrame
    \/ ToggleUseSgtk
    \/ WriteFile
    \/ DeleteFile

Spec == Init /\ [][Next]_vars

\* a publish round trip: the sgtk parameters are removed (the scene goes to
\* the farm), files are written, the output paths are collected and the
\* parameters are restored
NextPublish ==
    \/ OnCreated
    \/ EditParm
    \/ SelectVersion
    \/ ToggleSingleFrame
    \/ EditOutput
    \/ RemoveSgtkParms
    \/ RestoreSgtkParms
    \/ GetOutputPaths
    \/ WriteFile

SpecPublish == Init /\ [][NextPublish]_vars

----------------------------------------------------------------------------
(* Version resolution on its own: every list of versions and every choice  *)
(* of the current version.                                                 *)

RECURSIVE SeqsUpTo(_, _)
SeqsUpTo(S, n) ==
    IF n = 0 THEN {<<>>}
    ELSE SeqsUpTo(S, n - 1)
         \cup {Append(q, x) : q \in {r \in SeqsUpTo(S, n - 1) : Len(r) = n - 1}, x \in S}

VersionLists == SeqsUpTo(1..(MaxVersion + 1), MaxLen)
Currents == {NEXT_VERSION_STR, NoStr} \cup {str(k) : k \in 0..MaxCurrent}

InitResolve ==
    /\ node = BareNode
    /\ disk = {}
    /\ extra_args \in ExtraArgsChoices
    /\ raised = "none"
    /\ lastOp = Op("init", "")
    /\ ret = NoRet
    /\ warned = FALSE
    /\ cls = NoCls
    /\ ImportIdle
    /\ rv \in {[NoRv EXCEPT !.all_versions = a, !.current = c]
                  : a \in VersionLists, c \in Currents}

ResolveVersion ==
    /\ ~rv.done
    /\ ~resolve_version_raises(rv.all_versions, rv.current)
    /\ rv' = [rv EXCEPT !.result = _resolve_version(rv.all_versions, rv.current),
                        !.done = TRUE]
    /\ raised' = "none"
    /\ lastOp' = Op("_resolve_version", "")
    /\ UNCHANGED <<node, disk, extra_args, ret, warned, cls, import>>

ResolveVersionFails ==
    /\ ~rv.done
    /\ resolve_version_raises(rv.all_versions, rv.current)
    /\ rv' = [rv EXCEPT !.done = TRUE]
    /\ raised' = "ValueError"
    /\ lastOp' = Op("_resolve_version", "")
    /\ UNCHANGED <<node, disk, extra_args, ret, warned, cls, import>>

NextResolve == ResolveVersion \/ ResolveVersionFails

SpecResolve == InitResolve /\ [][NextResolve]_vars

----------------------------------------------------------------------------
(* NodeHandlerBase.__new__: the configuration of the handler classes.      *)

MaxInstances == 2  \* most instantiations of one handler class

Classes ==
    {"NodeHandlerBase", "ImportNodeHandler", "FileNodeHandler",
     "AlembicImportNodeHandler", "ImageNodeHandler", "ExportNodeHandler",
     "BaseCacheNodeHandler", "AlembicNodeHandler", "RopAlembicNodeHandler"}

\* the handler classes the engine instantiates (the last class of a hook chain)
Handlers ==
    {"FileNodeHandler", "AlembicImportNodeHandler", "ImageNodeHandler",
     "AlembicNodeHandler", "RopAlembicNodeHandler"}

\* the class each class derives from, as the documented hook chains build it
Base(c) ==
    CASE c \in {"ImportNodeHandler", "ExportNodeHandler"} -> "NodeHandlerBase"
      [] c \in {"FileNodeHandler", "AlembicImportNodeHandler", "ImageNodeHandler"}
             -> "ImportNodeHandler"
      [] c = "BaseCacheNodeHandler" -> "ExportNodeHandler"
      [] c = "AlembicNodeHandler" -> "BaseCacheNodeHandler"
      [] c = "RopAlembicNodeHandler" -> "AlembicNodeHandler"
      [] OTHER -> "object"

Inherit == "inherit"
None == "None"

\* NODE_TYPE and NODE_CATEGORY as the class body declares them
Declared(c) ==
    CASE c = "NodeHandlerBase" -> [NODE_TYPE |-> None, NODE_CATEGORY |-> None]
      [] c = "ImportNodeHandler" -> [NODE_TYPE |-> "alembic", NODE_CATEGORY |-> "Sop"]
      [] c = "AlembicImportNodeHandler" ->
             [NODE_TYPE |-> "alembic", NODE_CATEGORY |-> "Sop"]
      [] c = "ImageNodeHandler" -> [NODE_TYPE |-> "file", NODE_CATEGORY |-> "Cop2"]
      [] c = "AlembicNodeHandler" -> [NODE_TYPE |-> "alembic", NODE_CATEGORY |-> Inherit]
      [] c = "RopAlembicNodeHandler" ->
             [NODE_TYPE |-> "rop_alembic", NODE_CATEGORY |-> "Sop"]
      [] OTHER -> [NODE_TYPE |-> Inherit, NODE_CATEGORY |-> Inherit]

RECURSIVE NODE_TYPE(_)
\* cls.NODE_TYPE: the nearest declaration along the base classes
NODE_TYPE(c) ==
    IF Declared(c).NODE_TYPE # Inherit THEN Declared(c).NODE_TYPE
    ELSE NODE_TYPE(Base(c))

RECURSIVE NODE_CATEGORY(_)
NODE_CATEGORY(c) ==
    IF Declared(c).NODE_CATEGORY # Inherit THEN Declared(c).NODE_CATEGORY
    ELSE NODE_CATEGORY(Base(c))

\* the node type and category the handler's module documents it for
Documented(c) ==
    CASE c = "FileNodeHandler" -> [node_type |-> "file", node_category |-> "Sop"]
      [] c = "AlembicImportNodeHandler" ->
             [node_type |-> "alembic", node_category |-> "Sop"]
      [] c = "ImageNodeHandler" -> [node_type |-> "file", node_category |-> "Cop2"]
      [] c = "AlembicNodeHandler" ->
             [node_type |-> "alembic", node_category |-> "Driver"]
      [] c = "RopAlembicNodeHandler" ->
             [node_type |-> "rop_alembic", node_category |-> "Sop"]

\* one entry of the node_handlers setting
Entry(node_type, node_category) ==
    [node_type |-> node_type, node_category |-> node_category,
     work_template |-> <<"work", node_type, node_category>>,
     publish_template |-> <<"publish", node_type, node_category>>,
     extra_args |-> <<"extra_args", node_type, node_category>>]

\* the node_handlers setting: the documented entries in two orders, and the
\* documented entries without the one for alembic SOPs
NodeHandlersChoices ==
    {<<Entry("file", "Sop"), Entry("alembic", "Sop"), Entry("file", "Cop2"),
       Entry("alembic", "Driver"), Entry("rop_alembic", "Sop")>>,
     <<Entry("rop_alembic", "Sop"), Entry("alembic", "Driver"),
       Entry("file", "Cop2"), Entry("alembic", "Sop"), Entry("file", "Sop")>>,
     <<Entry("file", "Sop"), Entry("file", "Cop2"), Entry("alembic", "Driver"),
       Entry("rop_alembic", "Sop")>>}

Unset == [set |-> FALSE, _work_template |-> <<>>, _publish_template |-> <<>>,
          extra_args |-> <<>>]

RECURSIVE hasattr(_, _)
\* hasattr(cls, "_work_template"): set on the class or on one of its bases
hasattr(st, c) ==
    IF c \notin Classes THEN FALSE
    ELSE st.attrs[c].set \/ hasattr(st, Base(c))

\* NodeHandlerBase.__new__(cls)
new(st, c) ==
    IF NODE_TYPE(c) # None /\ NODE_CATEGORY(c) # None
    THEN IF hasattr(st, c) THEN st
         ELSE
         LET node_handlers == st.node_handlers
             matching == {i \in 1..Len(node_handlers) :
                             /\ node_handlers[i].node_type = NODE_TYPE(c)
                             /\ node_handlers[i].node_category = NODE_CATEGORY(c)}
             read == [st EXCEPT !.reads[c] = @ + 1]
         IN  IF matching = {} THEN read
             ELSE LET handler ==
                          node_handlers[CHOOSE i \in matching : \A j \in matching : i <= j]
                  IN  [read EXCEPT !.attrs[c] =
                           [set |-> TRUE,
                            _work_template |-> handler.work_template,
                            _publish_template |-> handler.publish_template,
                            extra_args |-> handler.extra_args]]
    ELSE st

InitNew ==
    /\ node = BareNode
    /\ disk = {}
    /\ extra_args \in ExtraArgsChoices
    /\ raised = "none"
    /\ lastOp = Op("init", "")
    /\ ret = NoRet
    /\ warned = FALSE
    /\ rv = NoRv
    /\ ImportIdle
    /\ cls \in {[node_handlers |-> h,
                 attrs |-> [c \in Classes |-> Unset],
                 reads |-> [c \in Classes |-> 0],
                 instances |-> [c \in Classes |-> 0]] : h \in NodeHandlersChoices}

\* the engine instantiates a handler class
Instantiate ==
    \E c \in Handlers :
        /\ cls.instances[c] < MaxInstances
        /\ cls' = [new(cls, c) EXCEPT !.instances[c] = @ + 1]
        /\ lastOp' = Op("__new__", c)
        /\ UNCHANGED <<node, disk, extra_args, raised, ret, warned, rv, import>>

NextNew == Instantiate

SpecNew == InitNew /\ [][NextNew]_vars

----------------------------------------------------------------------------
(* Claims.                                                                 *)

\* the callbacks that ran _refresh_file_path
RefreshRan ==
    \/ lastOp.op \in {"on_loaded", "refresh_file_path", "refresh_file_path_from_version"}
    \/ lastOp.op = "validate_parm_and_refresh_path" /\ ~warned
    \/ lastOp.op = "enable_sgtk" /\ node.use_sgtk

\* C1 (as claimed): when the work template is missing during a file path
\* refresh, no exception escapes the refresh and the output parameter ends up
\* locked and holding the placeholder error string.
C1_MissingTemplateCaught ==
    (RefreshRan /\ node.has_folder /\ get_work_template_raises(node, extra_args))
        => /\ raised = "none"
           /\ node.locked
           /\ node.output = RawPath(DEFAULT_ERROR_STRING)

OnlyLettersAndDigits(s) == \A i \in 1..Len(s) : s[i] \in {"a", "b", "x"} \cup DigitSet

\* C2: validate_parm_and_refresh_path resets an edited parameter whose stripped
\* value is not made only of letters and digits, warns, raises nothing and does
\* not refresh (output, version list, menu index and resolved version keep
\* their values); with a valid value it shows no box and the outcome is that
\* of the file path refresh.
C2_ValidateThenRefresh ==
    [][lastOp'.op = "validate_parm_and_refresh_path" =>
        IF ~OnlyLettersAndDigits(strip(lastOp'.value))
        THEN /\ parmValue(node', lastOp'.parm) = NoStr
             /\ warned'
             /\ raised' = "none"
             /\ node'.output = node.output
             /\ node'.locked = node.locked
             /\ node'.sgtk_all_versions = node.sgtk_all_versions
             /\ node'.sgtk_version = node.sgtk_version
             /\ node'.sgtk_resolved_version = node.sgtk_resolved_version
        ELSE /\ ~warned'
             /\ \E host \in Hosts :
                    Outcome(node', raised') =
                        _refresh_file_path(
                            parmSet(node, lastOp'.parm, lastOp'.value),
                            disk, extra_args, host)
    ]_vars

\* C2 witness: an invalid Element was typed and rejected on a node that holds
\* a resolved path
C2_Witness ==
    /\ lastOp.op = "validate_parm_and_refresh_path"
    /\ lastOp.value = <<"a", "-">>
    /\ warned
    /\ node.output.kind = "tmpl"

Highest(S) == IF S = {} THEN 0 ELSE CHOOSE m \in S : \A x \in S : x <= m

\* C3: _resolve_version returns the next version (highest + 1, 1 for an empty
\* list) for "<NEXT>"; for a number it returns that number when it is an
\* existing version or the next version, and the next version otherwise; the
\* result is at least 1 and is an existing version or the next version.
C3_ResolveVersion ==
    (rv.done /\ raised = "none") =>
        LET existing == Elems(rv.all_versions)
            next == Highest(existing) + 1
        IN  /\ rv.current = NEXT_VERSION_STR => rv.result = next
            /\ rv.current # NEXT_VERSION_STR =>
                   rv.result = (IF int(rv.current) \in existing \cup {next}
                                THEN int(rv.current) ELSE next)
            /\ rv.result >= 1
            /\ rv.result \in existing \cup {next}

\* C3 witness: a number that is no existing version was resolved to the next
C3_Witness ==
    /\ rv.done /\ raised = "none"
    /\ rv.all_versions = <<1, 3>>
    /\ rv.current = str(2)
    /\ rv.result = 4

\* C4: after every completed file path refresh the output parameter is locked,
\* sgtk_all_versions holds the versions this refresh found, the resolved
\* version is the decimal string of _resolve_version(found, selected entry) and
\* the output is the work template applied with that version or the placeholder.
C4_RefreshPostcondition ==
    (RefreshRan /\ raised = "none") =>
        LET template == get_work_template(node, extra_args)
            fields == template_fields(node)
            found == _resolve_all_versions_from_fields(disk, fields, template)
        IN  /\ node.locked
            /\ _get_all_versions(node) = found
            /\ \E host \in Hosts :
                   /\ ~resolve_version_raises(found, evalAsString(node, host))
                   /\ node.sgtk_resolved_version =
                          str(_resolve_version(found, evalAsString(node, host)))
            /\ node.output \in
                   {RawPath(DEFAULT_ERROR_STRING),
                    apply_fields(template,
                        [fields EXCEPT !.version = int(node.sgtk_resolved_version)])}

\* C4 witness: a refresh found two versions and resolved an existing one
C4_Witness ==
    /\ RefreshRan /\ raised = "none"
    /\ _get_all_versions(node) = <<1, 2>>
    /\ node.sgtk_resolved_version = str(1)
    /\ node.output.kind = "tmpl" /\ node.output.version = 1

\* C5: remove_sgtk_parms returns False and changes nothing on a node without
\* the use_sgtk parameter; on a node with it, it unlocks the output parameter,
\* removes the sgtk folder (use_sgtk with it), leaves the output path and the
\* sgtk_identifier alone, raises nothing and returns True.
C5_RemoveSgtkParms ==
    [][lastOp'.op = "remove_sgtk_parms" =>
        IF ~node.has_folder
        THEN /\ ~ret'.removed
             /\ node' = node
        ELSE /\ ret'.removed
             /\ ~node'.has_folder
             /\ ~node'.use_sgtk
             /\ ~node'.locked
             /\ node'.output = node.output
             /\ node'.sgtk_identifier = node.sgtk_identifier
             /\ raised' = "none"
    ]_vars

\* C5 witness: the parameters were removed from a node that held a resolved path
C5_Witness ==
    /\ lastOp.op = "remove_sgtk_parms"
    /\ ret.removed
    /\ ~node.has_folder /\ ~node.locked
    /\ node.output.kind = "tmpl"

\* restore_sgtk_parms acts on the node: sgtk_identifier is there, use_sgtk is not
RestoreActs(n) == n.sgtk_identifier /\ ~n.has_folder

\* the restored node was populated from this path: a template was found for
\* it, the path is of that template and nothing was raised
PopulatedFrom(path, args, exception) ==
    /\ exception = "none"
    /\ ~_get_template_for_file_path_raises(args, path)
    /\ validate(_get_template_for_file_path(args, path), path)

\* C6 (as claimed): a restore that populates the node takes the version from
\* the output path the node held just before.
C6_VersionFromPath ==
    [][(lastOp'.op = "restore_sgtk_parms" /\ RestoreActs(node)
        /\ PopulatedFrom(node.output, extra_args, raised'))
        => node'.sgtk_resolved_version = str(node.output.version)
    ]_vars

\* C6 (amended): restore_sgtk_parms changes a node only when it has
\* sgtk_identifier and lacks use_sgtk; then it re-adds the sgtk folder and, when
\* the output path held just before is of the template, Element is taken from
\* that path, Location and Variation from the stored optional keys, and the
\* version menu is put on <NEXT> when the node was using the next version, and
\* on the path's version otherwise, when that version is still on disk.
C6_RestoreSgtkParms ==
    [][lastOp'.op = "restore_sgtk_parms" =>
        IF ~RestoreActs(node)
        THEN node' = node /\ raised' = "none"
        ELSE /\ node'.has_folder
             /\ node'.sgtk_identifier
             /\ PopulatedFrom(node.output, extra_args, raised') =>
                   /\ node'.sgtk_element = node.output.name
                   /\ node'.sgtk_location = node.sgtk_optional_keys.location
                   /\ node'.sgtk_variation = node.sgtk_optional_keys.variation
                   /\ node.sgtk_using_next_version =>
                          /\ node'.sgtk_version = Len(_get_all_versions(node'))
                          /\ node'.sgtk_resolved_version =
                                 str(NextVersion(_get_all_versions(node')))
                   /\ (/\ ~node.sgtk_using_next_version
                       /\ node.output.version \in Elems(_get_all_versions(node'))) =>
                          node'.sgtk_resolved_version = str(node.output.version)
    ]_vars

\* C6 witness: a node using <NEXT> was restored after version 1 had been
\* written: the path it held was of version 1, the restored node resolves 2
C6_Witness ==
    /\ lastOp.op = "restore_sgtk_parms"
    /\ raised = "none"
    /\ node.has_folder /\ node.use_sgtk
    /\ node.sgtk_element = ElementA
    /\ node.sgtk_using_next_version
    /\ _get_all_versions(node) = <<1>>
    /\ node.sgtk_resolved_version = str(2)

\* C8: a cache node's work and publish templates are the handler's single-file
\* templates when sgtk_single_frame is on or absent and the extra_args
\* sequence templates when it is off; a restore that populates the node from a
\* path sets sgtk_single_frame exactly when the path's template has no SEQ
\* key, so the work template afterwards is the template of that path.
C8_SingleFrameTemplates ==
    [][/\ (~node'.has_folder \/ node'.sgtk_single_frame) =>
              /\ ~get_work_template_raises(node', extra_args)
              /\ ~get_publish_template_raises(node', extra_args)
              /\ get_work_template(node', extra_args) = "work"
              /\ get_publish_template(node', extra_args) = "publish"
       /\ (node'.has_folder /\ ~node'.sgtk_single_frame) =>
              /\ ~get_work_template_raises(node', extra_args) =>
                     get_work_template(node', extra_args) = extra_args["seq_work_template"]
              /\ ~get_publish_template_raises(node', extra_args) =>
                     get_publish_template(node', extra_args)
                         = extra_args["seq_publish_template"]
       /\ (lastOp'.op = "restore_sgtk_parms" /\ RestoreActs(node)
           /\ PopulatedFrom(node.output, extra_args, raised')) =>
              /\ node'.sgtk_single_frame = (node.output.tmpl \notin {"seq_work", "seq_publish"})
              /\ get_work_template(node', extra_args) = node.output.tmpl
              /\ node'.output.tmpl = node.output.tmpl
    ]_vars

\* C8 witness: a sequence path was restored into sequence mode
C8_Witness ==
    /\ lastOp.op = "restore_sgtk_parms"
    /\ raised = "none"
    /\ node.has_folder /\ node.use_sgtk
    /\ ~node.sgtk_single_frame
    /\ node.output.kind = "tmpl" /\ node.output.tmpl = "seq_work"

PathOnDisk(d, path) ==
    \E file \in d :
        /\ path.kind = "tmpl"
        /\ file.tmpl = path.tmpl /\ file.name = path.name
        /\ file.location = path.location /\ file.variation = path.variation
        /\ file.version = path.version

\* C10: get_output_paths_and_templates returns the empty list for a node
\* without use_sgtk or with use_sgtk off; otherwise every entry holds
\* work_template, publish_template and path, and holds sequence_paths only when
\* files of the sequence were found; no entry is produced when no file of the
\* path is on disk and the node stores no versions; when no file of the path is
\* on disk but versions are stored, the entry's path is that of the highest
\* stored version.
C10_OutputPaths ==
    (lastOp.op = "get_output_paths_and_templates" /\ raised = "none") =>
        LET items == ret.items
            stored == _get_all_versions(node)
        IN  /\ ~(node.has_folder /\ node.use_sgtk) => items = <<>>
            /\ \A i \in 1..Len(items) :
                   /\ {"work_template", "publish_template", "path"} \subseteq items[i].keys
                   /\ "sequence_paths" \in items[i].keys =>
                          /\ items[i].sequence_paths # {}
                          /\ items[i].sequence_paths \subseteq disk
            /\ (~PathOnDisk(disk, node.output) /\ stored = <<>>) => items = <<>>
            /\ (/\ node.has_folder /\ node.use_sgtk
                /\ ~PathOnDisk(disk, node.output) /\ stored # <<>>) =>
                   /\ Len(items) = 1
                   /\ items[1].path.version = Highest(Elems(stored))
                   /\ items[1].path =
                          [node.output EXCEPT !.version = Highest(Elems(stored))]

\* C10 witness: the node is on <NEXT> with version 1 on disk: the path of
\* version 2 is not on disk and the entry is for version 1
C10_Witness ==
    /\ lastOp.op = "get_output_paths_and_templates"
    /\ raised = "none"
    /\ node.has_folder /\ node.use_sgtk
    /\ node.output.kind = "tmpl" /\ node.output.version = 2
    /\ _get_all_versions(node) = <<1>>
    /\ Len(ret.items) = 1
    /\ ret.items[1].path.version = 1

\* the first entry of the node_handlers setting for a node type and category
FirstEntry(node_handlers, documented) ==
    LET matching == {i \in 1..Len(node_handlers) :
                        /\ node_handlers[i].node_type = documented.node_type
                        /\ node_handlers[i].node_category = documented.node_category}
    IN  IF matching = {} THEN 0
        ELSE CHOOSE i \in matching : \A j \in matching : i <= j

\* C7 (as claimed): once a handler class has been instantiated, its templates
\* and extra_args are those of the node_handlers entry for the node type and
\* category the handler is documented to serve, and the settings were read
\* at most once for it.
C7_ConfiguredAsDocumented ==
    \A c \in Handlers :
        cls.instances[c] > 0 =>
            LET i == FirstEntry(cls.node_handlers, Documented(c))
            IN  /\ i # 0 =>
                       /\ cls.attrs[c].set
                       /\ cls.attrs[c]._work_template = cls.node_handlers[i].work_template
                       /\ cls.attrs[c]._publish_template
                              = cls.node_handlers[i].publish_template
                       /\ cls.attrs[c].extra_args = cls.node_handlers[i].extra_args
                /\ cls.reads[c] <= 1

----------------------------------------------------------------------------
(* ImportNodeHandler: regular expressions and glob on file paths.          *)
(* A path is a sequence of characters; the frame variable $F4 and a        *)
(* placeholder message are each one element of the sequence.               *)

Min(S) == CHOOSE x \in S : \A y \in S : x <= y

LATEST_POLICY == <<"<LATEST>">>
LATEST_COMPLETE_POLICY == <<"<LATEST COMPLETE>">>
Import_VERSION_POLICIES == <<LATEST_POLICY, LATEST_COMPLETE_POLICY>>

NO_VERSIONS == <<"No version">>
NO_PUBLISH == <<"No publish selected">>
NO_NODE == <<"No node selected">>
NO_FILE == <<"No file selected">>
NOTHING_ON_DISK == <<"Nothing on disk">>
FAILED_TO_GET_PUBLISH == <<"Failed to get publish entity">>
NO_PATH_FOUND == <<"No path found in shotgun">>
URL_UNSUPPORTED == <<"Importing from URL is currently unsupported">>

\* SEQUENCE_REGEX, which is also the frame the path is expanded at
SEQUENCE_REGEX == <<"-", "9", "9", "9", "9">>
FrameVariable == "$F4"

\* a frame variable of a padding wider than the number -9999
WideFrameVariable == "$F6"

\* the frame -9999 padded with zeros to six places: one element, whose text
\* the host decides ("-09999" when the sign counts as a place, else
\* "-009999"); neither text has the characters of SEQUENCE_REGEX in a row
PaddedFrame == "-09999"

\* the text of one element of a path at frame -9999
expandAtFrame(element) ==
    IF element = FrameVariable THEN SEQUENCE_REGEX
    ELSE IF element = WideFrameVariable THEN <<PaddedFrame>>
    ELSE <<element>>

RECURSIVE expandStringAtFrame(_)
\* hou.text.expandStringAtFrame(path, int(SEQUENCE_REGEX))
expandStringAtFrame(path) ==
    IF Len(path) = 0 THEN <<>>
    ELSE expandAtFrame(Head(path)) \o expandStringAtFrame(Tail(path))

RECURSIVE DigitRun(_, _)
\* the index after the digits that start at i (\d+ is greedy)
DigitRun(s, i) ==
    IF i <= Len(s) /\ s[i] \in DigitSet THEN DigitRun(s, i + 1) ELSE i

\* WORK_VERSION_REGEX, v(\d+), matches at i
VersionAt(s, i) == s[i] = "v" /\ i + 1 <= Len(s) /\ s[i + 1] \in DigitSet

SequenceAt(s, i) ==
    i + Len(SEQUENCE_REGEX) - 1 <= Len(s)
    /\ SubSeq(s, i, i + Len(SEQUENCE_REGEX) - 1) = SEQUENCE_REGEX

\* re.search(WORK_VERSION_REGEX, s) finds a match
version_match(s) == \E i \in 1..Len(s) : VersionAt(s, i)

\* re.search(WORK_VERSION_REGEX, s).group(1): the digits of the first match
version_match_group(s) ==
    SubSeq(s, Min({i \in 1..Len(s) : VersionAt(s, i)}) + 1,
           DigitRun(s, Min({i \in 1..Len(s) : VersionAt(s, i)}) + 1) - 1)

RECURSIVE re_sub_from(_, _, _, _)
\* re.sub of the version tokens (and, when asked, of SEQUENCE_REGEX) from i on
re_sub_from(s, i, repl, sequences) ==
    IF i > Len(s) THEN <<>>
    ELSE IF VersionAt(s, i)
    THEN repl \o re_sub_from(s, DigitRun(s, i + 1), repl, sequences)
    ELSE IF sequences /\ SequenceAt(s, i)
    THEN repl \o re_sub_from(s, i + Len(SEQUENCE_REGEX), repl, sequences)
    ELSE <<s[i]>> \o re_sub_from(s, i + 1, repl, sequences)

\* re.sub(r"v(\d+)|-9999", "*", expanded_path)
glob_path(expanded_path) == re_sub_from(expanded_path, 1, <<"*">>, TRUE)

RECURSIVE fnmatch(_, _)
\* a file name matches a glob pattern, in which * stands for any characters
fnmatch(name, pattern) ==
    IF Len(pattern) = 0 THEN Len(name) = 0
    ELSE IF Head(pattern) = "*"
    THEN \E k \in 0..Len(name) :
             fnmatch(SubSeq(name, k + 1, Len(name)), Tail(pattern))
    ELSE /\ Len(name) > 0
         /\ Head(name) = Head(pattern)
         /\ fnmatch(Tail(name), Tail(pattern))

\* glob.iglob(pattern): the paths on disk that match
iglob(fs, pattern) == {f \in fs : fnmatch(f, pattern)}

\* the version numbers found in the paths that carry one
unique_versions(all_paths) ==
    {int(version_match_group(f)) : f \in {g \in all_paths : version_match(g)}}

versions_of_paths(all_paths) ==
    IF all_paths # {} /\ unique_versions(all_paths) = {}
    THEN <<1>>
    ELSE SortedSeq(unique_versions(all_paths))

\* ImportNodeHandler._resolve_all_versions_from_path; list(set) of small
\* integers is in ascending order
_resolve_all_versions_from_path(fs, path) ==
    versions_of_paths(iglob(fs, glob_path(expandStringAtFrame(path))))

RECURSIVE zfill(_, _)
\* str.zfill(width)
zfill(s, width) == IF Len(s) >= width THEN s ELSE zfill(<<"0">> \o s, width)

\* WORK_VERSION_TEMPLATE.format(version)
WORK_VERSION_TEMPLATE(version) == <<"v">> \o version

\* ImportNodeHandler._replace_version_in_path
_replace_version_in_path(path, version) ==
    IF version_match(path) /\ int(version_match_group(path)) # version
    THEN re_sub_from(path, 1,
                     WORK_VERSION_TEMPLATE(
                         zfill(str(version), Len(version_match_group(path)))),
                     FALSE)
    ELSE path

\* int(current) raises ValueError
resolve_work_version_raises(all_versions, current) ==
    Len(all_versions) > 0 /\ current # LATEST_POLICY /\ ~IsNumeric(current)

\* the None that _resolve_work_version returns when nothing is on disk
NoVersion == 0

\* ImportNodeHandler._resolve_work_version
_resolve_work_version(all_versions, current) ==
    IF Len(all_versions) = 0 THEN NoVersion
    ELSE IF current # LATEST_POLICY /\ int(current) \in Elems(all_versions)
    THEN int(current)
    ELSE Max(Elems(all_versions))

----------------------------------------------------------------------------
(* ImportNodeHandler: the publishes in Shotgun and the version policies.   *)

\* sg_status_list of a PublishedFile; NoPublish: no entity of that version
Statuses == {"ip", "cmpt", "decl"}
NoPublish == "none"

\* the publishes of one name: version number -> status
ShotgunStates == [1..MaxVersion -> Statuses \cup {NoPublish}]

\* the publish data a node stores: unset (the empty string), or a dictionary
\* that has the four required keys (valid) or lacks them
NoPublishData ==
    [set |-> FALSE, valid |-> FALSE, version_policy |-> NoStr, version_number |-> 0]

\* the entity dictionary the loader hands over for the publish of a version
sg_data(version) ==
    [set |-> TRUE, valid |-> TRUE, version_policy |-> NoStr, version_number |-> version]

\* ImportNodeHandler._validate_publish_data
_validate_publish_data(publish_data) == publish_data.valid

RECURSIVE find_from(_, _)
\* sg.find("PublishedFile", filters, ...), sorted by version_number, without
\* the declined publishes
find_from(sg, v) ==
    IF v > MaxVersion THEN <<>>
    ELSE (IF sg[v] \in {NoPublish, "decl"} THEN <<>>
          ELSE <<[version |-> v, status |-> sg[v]]>>)
         \o find_from(sg, v + 1)

\* ImportNodeHandler._resolve_all_versions_statuses
_resolve_all_versions_statuses(sg, publish_data) ==
    IF ~_validate_publish_data(publish_data) THEN <<>> ELSE find_from(sg, 1)

\* ImportNodeHandler._extract_versions
_extract_versions(versions_and_statuses) ==
    [i \in 1..Len(versions_and_statuses) |-> versions_and_statuses[i].version]

\* _extract_versions(...) or [1]
versions_or_1(versions_and_statuses) ==
    IF Len(versions_and_statuses) = 0 THEN <<1>>
    ELSE _extract_versions(versions_and_statuses)

\* the versions whose status is 'cmpt'
all_cmpt(versions_and_statuses) ==
    {versions_and_statuses[i].version :
        i \in {j \in 1..Len(versions_and_statuses) :
                  versions_and_statuses[j].status = "cmpt"}}

\* int(current) raises ValueError
Import_resolve_version_raises(current) ==
    current \notin Elems(Import_VERSION_POLICIES) /\ ~IsNumeric(current)

\* ImportNodeHandler._resolve_version
Import_resolve_version(versions_and_statuses, current) ==
    IF current = LATEST_COMPLETE_POLICY
    THEN IF all_cmpt(versions_and_statuses) # {}
         THEN Max(all_cmpt(versions_and_statuses))
         ELSE Max(Elems(versions_or_1(versions_and_statuses)))
    ELSE IF current = LATEST_POLICY
    THEN Max(Elems(versions_or_1(versions_and_statuses)))
    ELSE IF int(current) \in Elems(versions_or_1(versions_and_statuses))
    THEN int(current)
    ELSE Max(Elems(versions_or_1(versions_and_statuses)))

\* sg.find_one("PublishedFile", filters + version_number) finds an entity
find_one(sg, version) == version \in 1..MaxVersion /\ sg[version] # NoPublish

\* the path field of a PublishedFile: a local path, a file:// url, another
\* url, or an upload
LinkTypes == {"local", "web_file", "web_other", "upload"}

\* the path the publish of a version was written to
PublishPath(version) == <<"p", "v">> \o str(version) \o <<".", "%04d", ".", "x">>

FileScheme == <<"f", "i", "l", "e", ":", "/", "/">>

\* url[7:] of a url that starts with file://
url_path(url) == SubSeq(url, Len(FileScheme) + 1, Len(url))

\* ImportNodeHandler._get_path_from_sg_data
_get_path_from_sg_data(version, link) ==
    IF link = "web_file" THEN url_path(FileScheme \o PublishPath(version))
    ELSE IF link = "upload" THEN URL_UNSUPPORTED
    ELSE IF link = "local" THEN PublishPath(version)
    ELSE NO_PATH_FOUND

\* the frame specifications the regular expression of
\* _convert_path_to_houdini_seq knows, each between two dots
FrameSpecs == {"%04d", "####"}

RECURSIVE convert_from(_, _)
convert_from(path, i) ==
    IF i > Len(path) THEN <<>>
    ELSE IF /\ i + 2 <= Len(path)
            /\ path[i] = "." /\ path[i + 1] \in FrameSpecs /\ path[i + 2] = "."
    THEN <<".", FrameVariable, ".">> \o convert_from(path, i + 3)
    ELSE <<path[i]>> \o convert_from(path, i + 1)

\* ImportNodeHandler._convert_path_to_houdini_seq
_convert_path_to_houdini_seq(path) == convert_from(path, 1)

----------------------------------------------------------------------------
(* ImportNodeHandler: the node and its parameters.                         *)

\* FileNodeHandler.INPUT_PARM
INPUT_PARM == "file"

\* the parameters _set_up_node appends
SetUpParms ==
    {"sgtk_publish_data", "sgtk_last_used", "sgtk_work_file_data",
     "sgtk_file_data", "sgtk_current_tab", "sgtk_identifier"}

\* the parameters of the folder that NodeHandlerBase._create_sgtk_folder
\* builds, with those of ImportNodeHandler._create_sgtk_parms
FolderParms ==
    {"use_sgtk", "sgtk_name", "sgtk_id", "sgtk_browse", "sgtk_all_versions",
     "sgtk_version", "sgtk_refresh_versions", "sgtk_resolved_version"}

\* the parameters of the Publish / Work / File tabs, which only
\* _create_sgtk_parm_fields creates
TabParms ==
    {"sgtk_path_selection11", "sgtk_node_name", "sgtk_node_parm",
     "sgtk_work_version", "sgtk_work_refresh_versions",
     "sgtk_work_resolved_version", "sgtk_file_path", "sgtk_file_version",
     "sgtk_file_refresh_versions", "sgtk_file_resolved_version"}

PUBLISH == 0
WORK == 1
FILE == 2

\* the path of the other node of the scene, and the name of its file parameter
OtherNode == "/obj/geo1"
OtherParm == "sopoutput"

DEFAULT_WORK_FILE_DATA ==
    [node |-> "", all_parms |-> <<>>, parm |-> "", all_versions |-> <<>>,
     current_version |-> LATEST_POLICY]

DEFAULT_FILE_DATA ==
    [path |-> NoStr, all_versions |-> <<>>, current_version |-> LATEST_POLICY]

\* an import node no handler has touched: it has its own parameters only
BareImportNode ==
    [parms |-> {INPUT_PARM}, input |-> <<"i", "n">>, locked |-> FALSE,
     use_sgtk |-> FALSE, sgtk_last_used |-> FALSE,
     sgtk_publish_data |-> NoPublishData, sgtk_all_versions |-> <<>>,
     sgtk_version |-> 0, sgtk_resolved_version |-> NoStr,
     sgtk_current_tab |-> PUBLISH, sgtk_path_selection |-> PUBLISH,
     sgtk_work_file_data |-> DEFAULT_WORK_FILE_DATA,
     sgtk_node_name |-> "", sgtk_node_parm |-> 0, sgtk_work_version |-> 0,
     sgtk_work_resolved_version |-> NO_VERSIONS,
     sgtk_file_data |-> DEFAULT_FILE_DATA, sgtk_file_path |-> NoStr,
     sgtk_file_version |-> 0, sgtk_file_resolved_version |-> NO_VERSIONS]

\* ImportNodeHandler._set_up_node, through add_sgtk_parms: Use Shotgun is off
\* by default, the resolved version reads 1
Import_add_sgtk_parms(n) ==
    [n EXCEPT !.parms = @ \cup SetUpParms \cup FolderParms,
              !.use_sgtk = FALSE,
              !.sgtk_last_used = FALSE,
              !.sgtk_publish_data = NoPublishData,
              !.sgtk_all_versions = <<>>,
              !.sgtk_version = 0,
              !.sgtk_resolved_version = str(1),
              !.sgtk_current_tab = PUBLISH,
              !.sgtk_work_file_data = DEFAULT_WORK_FILE_DATA,
              !.sgtk_file_data = DEFAULT_FILE_DATA]

\* node.parm(name) is None
parm_is_None(n, name) == name \notin n.parms

\* input_parm.lock(False); input_parm.set(path); input_parm.lock(True)
set_input(n, path) == [n EXCEPT !.input = path, !.locked = TRUE]

\* ImportNodeHandler._get_all_versions
Import_get_all_versions(n) == _extract_versions(n.sgtk_all_versions)

\* the tokens of the version menu (the item generator is populate_versions)
Import_menuItems(n) == Map(str, Import_get_all_versions(n)) \o Import_VERSION_POLICIES

\* hou.Parm.evalAsString of the version menu
Import_evalAsString(n, host) ==
    IF n.sgtk_version < Len(Import_menuItems(n))
    THEN Import_menuItems(n)[n.sgtk_version + 1]
    ELSE IF host = "index" THEN str(n.sgtk_version) ELSE NoStr

----------------------------------------------------------------------------
(* ImportNodeHandler: the refresh of the Publish tab.                      *)

\* the path of the publish found, or the message that none was found
publish_path(sg, resolved_version, link) ==
    IF ~find_one(sg, resolved_version) THEN FAILED_TO_GET_PUBLISH
    ELSE _convert_path_to_houdini_seq(_get_path_from_sg_data(resolved_version, link))

refresh_publish_resolved(n, sg, resolved_version, link) ==
    Outcome(set_input(
                [n EXCEPT !.sgtk_resolved_version = str(resolved_version)],
                publish_path(sg, resolved_version, link)),
            "none")

refresh_publish_current(n, sg, current, link) ==
    IF Import_resolve_version_raises(current) THEN Outcome(n, "ValueError")
    ELSE refresh_publish_resolved(
             n, sg, Import_resolve_version(n.sgtk_all_versions, current), link)

refresh_publish_versions(n, sg, host, link) ==
    refresh_publish_current(n, sg, Import_evalAsString(n, host), link)

\* ImportNodeHandler._refresh_file_path_from_publish_data
_refresh_file_path_from_publish_data(n, sg, publish_data, host, link) ==
    IF _validate_publish_data(publish_data)
    THEN refresh_publish_versions(
             [n EXCEPT !.sgtk_all_versions =
                           _resolve_all_versions_statuses(sg, publish_data)],
             sg, host, link)
    ELSE Outcome(set_input(n, NO_PUBLISH), "none")

\* ImportNodeHandler._refresh_file_path
Import_refresh_file_path(n, sg, host, link) ==
    IF parm_is_None(n, "sgtk_publish_data") THEN Outcome(n, "AttributeError")
    ELSE IF n.sgtk_publish_data.set
    THEN _refresh_file_path_from_publish_data(n, sg, n.sgtk_publish_data, host, link)
    ELSE Outcome(set_input(n, NO_PUBLISH), "none")

----------------------------------------------------------------------------
(* ImportNodeHandler: the refresh of the Work tab. The other node has no   *)
(* handler and its path matches no template, so the versions come from the *)
(* regular expression.                                                     *)

\* hou.node(node_path) finds the node
hou_node(sc, node_path) == node_path = OtherNode /\ sc.exists

work_resolved(n, resolved_version, orig_path) ==
    Outcome(set_input(
                [n EXCEPT !.sgtk_work_resolved_version =
                              IF resolved_version # NoVersion
                              THEN str(resolved_version) ELSE NO_VERSIONS],
                IF resolved_version # NoVersion
                THEN _replace_version_in_path(orig_path, resolved_version)
                ELSE NOTHING_ON_DISK),
            "none")

work_versions(n, all_versions, orig_path) ==
    IF resolve_work_version_raises(all_versions, n.sgtk_work_file_data.current_version)
    THEN Outcome(n, "ValueError")
    ELSE work_resolved(
             n,
             _resolve_work_version(all_versions,
                                   n.sgtk_work_file_data.current_version),
             orig_path)

\* the branch of _refresh_file_path_from_node for a node that exists
work_from_parent(n, sc, fs) ==
    IF \/ parm_is_None(n, "sgtk_node_name")
       \/ parm_is_None(n, "sgtk_node_parm")
       \/ parm_is_None(n, "sgtk_work_resolved_version")
    THEN Outcome(n, "AttributeError")
    ELSE work_versions(
             [n EXCEPT !.sgtk_node_name = n.sgtk_work_file_data.node,
                       !.sgtk_node_parm = 0,
                       !.sgtk_work_file_data.all_versions =
                           _resolve_all_versions_from_path(fs, sc.path)],
             _resolve_all_versions_from_path(fs, sc.path), sc.path)

\* the branch of _refresh_file_path_from_node for no node
work_no_parent(n) ==
    IF \/ parm_is_None(n, "sgtk_node_parm")
       \/ parm_is_None(n, "sgtk_work_version")
       \/ parm_is_None(n, "sgtk_work_resolved_version")
    THEN Outcome(n, "AttributeError")
    ELSE Outcome(set_input(
                     [n EXCEPT !.sgtk_node_parm = 0,
                               !.sgtk_work_version = 0,
                               !.sgtk_work_resolved_version = NO_VERSIONS],
                     NO_NODE),
                 "none")

\* ImportNodeHandler._refresh_file_path_from_node
_refresh_file_path_from_node(n, sc, fs) ==
    IF parm_is_None(n, "sgtk_work_file_data") THEN Outcome(n, "AttributeError")
    ELSE IF hou_node(sc, n.sgtk_work_file_data.node)
    THEN work_from_parent(n, sc, fs)
    ELSE work_no_parent(n)

----------------------------------------------------------------------------
(* ImportNodeHandler: the refresh of the File tab.                         *)

file_resolved(n, resolved_version, file_path) ==
    Outcome(set_input(
                [n EXCEPT !.sgtk_file_resolved_version =
                              IF resolved_version # NoVersion
                              THEN str(resolved_version) ELSE NO_VERSIONS,
                          !.sgtk_file_path =
                              IF resolved_version # NoVersion
                              THEN _replace_version_in_path(file_path, resolved_version)
                              ELSE file_path],
                IF resolved_version # NoVersion
                THEN _replace_version_in_path(file_path, resolved_version)
                ELSE NOTHING_ON_DISK),
            "none")

file_versions(n, all_versions, file_path) ==
    IF resolve_work_version_raises(all_versions, n.sgtk_file_data.current_version)
    THEN Outcome(n, "ValueError")
    ELSE file_resolved(
             n,
             _resolve_work_version(all_versions, n.sgtk_file_data.current_version),
             file_path)

\* ImportNodeHandler._refresh_file_path_from_path
_refresh_file_path_from_path(n, fs) ==
    IF \/ parm_is_None(n, "sgtk_file_data")
       \/ parm_is_None(n, "sgtk_file_path")
       \/ parm_is_None(n, "sgtk_file_version")
       \/ parm_is_None(n, "sgtk_file_resolved_version")
    THEN Outcome(n, "AttributeError")
    ELSE IF n.sgtk_file_path # NoStr
    THEN file_versions(
             [n EXCEPT !.sgtk_file_data.all_versions =
                           _resolve_all_versions_from_path(fs, n.sgtk_file_path)],
             _resolve_all_versions_from_path(fs, n.sgtk_file_path),
             n.sgtk_file_path)
    ELSE Outcome(set_input(
                     [n EXCEPT !.sgtk_file_path = NoStr,
                               !.sgtk_file_version = 0,
                               !.sgtk_file_resolved_version = NO_VERSIONS],
                     NO_FILE),
                 "none")

----------------------------------------------------------------------------
(* ImportNodeHandler: callbacks.                                           *)

\* ImportNodeHandler._enable_sgtk
Import__enable_sgtk(n, sgtk_enabled, sg, sc, fs, host, link) ==
    IF ~sgtk_enabled THEN Outcome([n EXCEPT !.locked = FALSE], "none")
    ELSE IF parm_is_None(n, "sgtk_path_selection11")
    THEN Outcome([n EXCEPT !.locked = TRUE], "AttributeError")
    ELSE IF n.sgtk_path_selection = PUBLISH
    THEN Import_refresh_file_path([n EXCEPT !.locked = TRUE], sg, host, link)
    ELSE IF n.sgtk_path_selection = WORK
    THEN _refresh_file_path_from_node([n EXCEPT !.locked = TRUE], sc, fs)
    ELSE _refresh_file_path_from_path([n EXCEPT !.locked = TRUE], fs)

\* sgtk_last_used.set(value), the last statement of enable_sgtk
enable_last_used(out) ==
    IF out.raised # "none" THEN out
    ELSE Outcome([out.node EXCEPT !.sgtk_last_used = out.node.use_sgtk], "none")

\* NodeHandlerBase.enable_sgtk after _enable_sgtk: refresh_file_path when on
enable_refresh(out, sg, host, link) ==
    IF out.raised # "none" THEN out
    ELSE IF out.node.use_sgtk
    THEN enable_last_used(Import_refresh_file_path(out.node, sg, host, link))
    ELSE enable_last_used(out)

\* ImportNodeHandler.enable_sgtk
Import_enable_sgtk(n, sg, sc, fs, host, link) ==
    enable_refresh(Import__enable_sgtk(n, n.use_sgtk, sg, sc, fs, host, link),
                   sg, host, link)

\* an outcome together with the number of times _enable_sgtk ran
Enabled(out, times) == [node |-> out.node, raised |-> out.raised, enabled |-> times]

\* NodeHandlerBase.activate_sgtk on an import node
Import_activate_sgtk(n, sg, sc, fs, host, link) ==
    IF n.use_sgtk THEN Enabled(Outcome(n, "none"), 0)
    ELSE Enabled(Import__enable_sgtk([n EXCEPT !.use_sgtk = TRUE], TRUE,
                                     sg, sc, fs, host, link), 1)

\* ImportNodeHandler._update_publish_data_parm
_update_publish_data_parm(n, publish_data, version_policy) ==
    [n EXCEPT !.sgtk_publish_data =
                  [publish_data EXCEPT !.set = TRUE, !.version_policy = version_policy]]

\* version if version in self.VERSION_POLICIES else None
policy_of(version) ==
    IF version \in Elems(Import_VERSION_POLICIES) THEN version ELSE NoStr

\* refresh_file_path_from_version, last part: the resolved version is written
\* back to the publish data
version_written_back(out) ==
    IF out.raised # "none" THEN out
    ELSE Outcome([out.node EXCEPT !.sgtk_publish_data.version_number =
                                      int(out.node.sgtk_resolved_version)],
                 "none")

\* ImportNodeHandler.refresh_file_path_from_version
Import_refresh_file_path_from_version(n, sg, host, link) ==
    version_written_back(
        Import_refresh_file_path(
            _update_publish_data_parm(n, n.sgtk_publish_data,
                                      policy_of(Import_evalAsString(n, host))),
            sg, host, link))

\* menu_items.index(...) raises ValueError: the version is not listed
update_version_raises(sg, publish_data, version_policy) ==
    /\ version_policy \notin Elems(Import_VERSION_POLICIES)
    /\ publish_data.version_number
           \notin Elems(_extract_versions(_resolve_all_versions_statuses(sg, publish_data)))

\* ImportNodeHandler._update_version_from_publish_data
_update_version_from_publish_data(n, sg, publish_data, version_policy) ==
    [n EXCEPT !.sgtk_version =
        IndexOf(Map(str, _extract_versions(
                             _resolve_all_versions_statuses(sg, publish_data)))
                    \o Import_VERSION_POLICIES,
                IF version_policy \in Elems(Import_VERSION_POLICIES)
                THEN version_policy ELSE str(publish_data.version_number))]

\* ImportNodeHandler.populate_node_from_publish_data
populate_node_from_publish_data(n, sg, publish_data, version_policy, host, link) ==
    IF update_version_raises(sg, publish_data, version_policy)
    THEN Outcome(_update_publish_data_parm(n, publish_data, version_policy),
                 "ValueError")
    ELSE Import_refresh_file_path(
             _update_version_from_publish_data(
                 _update_publish_data_parm(n, publish_data, version_policy),
                 sg, publish_data, version_policy),
             sg, host, link)

----------------------------------------------------------------------------
(* An import node in a session: the loader, the version menu, Use Shotgun, *)
(* calls of the three refreshes, and publishes that come and change status. *)

NoScene == [exists |-> FALSE, path |-> <<"c", "v", "1">>]

InitImport ==
    /\ node = BareNode
    /\ disk = {}
    /\ extra_args = CHOOSE args \in ExtraArgsChoices : TRUE
    /\ raised = "none"
    /\ lastOp = Op("init", "")
    /\ ret = NoRet
    /\ warned = FALSE
    /\ rv = NoRv
    /\ cls = NoCls
    /\ inode = BareImportNode
    /\ shotgun = [v \in 1..MaxVersion |-> NoPublish]
    /\ scene = NoScene
    /\ files = {}
    /\ ev = Unused

\* the outcome of a handler call on the import node
FinishImport(op, out) ==
    /\ inode' = out.node
    /\ raised' = out.raised
    /\ lastOp' = op
    /\ UNCHANGED <<node, disk, extra_args, ret, warned, rv, cls,
                   shotgun, scene, files, ev>>

\* OnCreated event: on_created adds the sgtk parameters
ImportOnCreated ==
    /\ parm_is_None(inode, "sgtk_identifier")
    /\ FinishImport(Op("on_created", ""), Outcome(Import_add_sgtk_parms(inode), "none"))

\* the user toggles Use Shotgun; its callback is enable_sgtk
ImportToggleUseSgtk ==
    \E host \in Hosts, link \in LinkTypes :
        /\ ~parm_is_None(inode, "use_sgtk")
        /\ FinishImport(Op("enable_sgtk", "use_sgtk"),
                        Import_enable_sgtk(
                            [inode EXCEPT !.use_sgtk = ~inode.use_sgtk],
                            shotgun, scene, files, host, link))

\* a loader hook activates Shotgun on the node
ImportActivateSgtk ==
    \E host \in Hosts, link \in LinkTypes :
        /\ ~parm_is_None(inode, "use_sgtk")
        /\ \E out \in {Import_activate_sgtk(inode, shotgun, scene, files, host, link)} :
               FinishImport([Op("activate_sgtk", "inode") EXCEPT
                                !.value = Calls("_enable_sgtk", out.enabled)],
                            out)

\* the user opens a publish in the loader: Open, Open Latest or Open Latest
\* Complete
ImportOnOpen ==
    \E version \in 1..MaxVersion, host \in Hosts, link \in LinkTypes :
    \E policy \in {NoStr} \cup Elems(Import_VERSION_POLICIES) :
        /\ ~parm_is_None(inode, "sgtk_browse")
        /\ shotgun[version] # NoPublish
        /\ FinishImport([Op("populate_node_from_publish_data", "") EXCEPT !.value = policy],
                        populate_node_from_publish_data(
                            inode, shotgun, sg_data(version), policy, host, link))

\* the user picks an entry of the version menu
ImportSelectVersion ==
    \E host \in Hosts, link \in LinkTypes :
    \E i \in 0..(Len(Import_menuItems(inode)) - 1) :
        /\ ~parm_is_None(inode, "sgtk_version")
        /\ FinishImport(Op("refresh_file_path_from_version", "sgtk_version"),
                        Import_refresh_file_path_from_version(
                            [inode EXCEPT !.sgtk_version = i], shotgun, host, link))

\* the user presses Refresh Versions
ImportPressRefresh ==
    \E host \in Hosts, link \in LinkTypes :
        /\ ~parm_is_None(inode, "sgtk_refresh_versions")
        /\ FinishImport(Op("refresh_file_path_from_version", "sgtk_refresh_versions"),
                        Import_refresh_file_path_from_version(
                            inode, shotgun, host, link))

\* a caller refreshes the path of the Work tab
CallRefreshFromNode ==
    /\ ~parm_is_None(inode, "sgtk_identifier")
    /\ FinishImport(Op("_refresh_file_path_from_node", ""),
                    _refresh_file_path_from_node(inode, scene, files))

\* a caller refreshes the path of the File tab
CallRefreshFromPath ==
    /\ ~parm_is_None(inode, "sgtk_identifier")
    /\ FinishImport(Op("_refresh_file_path_from_path", ""),
                    _refresh_file_path_from_path(inode, files))

\* the next version is published
Publish ==
    \E version \in 1..MaxVersion :
        /\ shotgun[version] = NoPublish
        /\ \A v \in 1..(version - 1) : shotgun[v] # NoPublish
        /\ shotgun' = [shotgun EXCEPT ![version] = "ip"]
        /\ raised' = "none" /\ lastOp' = Op("publish", "")
        /\ UNCHANGED <<node, disk, extra_args, ret, warned, rv, cls,
                       inode, scene, files, ev>>

\* a publish in progress is approved or declined
SetStatus ==
    \E version \in 1..MaxVersion, status \in {"cmpt", "decl"} :
        /\ shotgun[version] = "ip"
        /\ shotgun' = [shotgun EXCEPT ![version] = status]
        /\ raised' = "none" /\ lastOp' = Op("set_status", "")
        /\ UNCHANGED <<node, disk, extra_args, ret, warned, rv, cls,
                       inode, scene, files, ev>>

NextImport ==
    \/ ImportOnCreated
    \/ ImportToggleUseSgtk
    \/ ImportActivateSgtk
    \/ ImportOnOpen
    \/ ImportSelectVersion
    \/ ImportPressRefresh
    \/ CallRefreshFromNode
    \/ CallRefreshFromPath
    \/ Publish
    \/ SetStatus

SpecImport == InitImport /\ [][NextImport]_vars

----------------------------------------------------------------------------
(* Claims about the import node.                                           *)

\* the operations that run one of the three path refreshes
ImportRefreshOps ==
    {"refresh_file_path_from_version", "_refresh_file_path_from_node",
     "_refresh_file_path_from_path"}

\* every string the refreshes write that is no path
ErrorStrings ==
    {NO_PUBLISH, NO_NODE, NO_FILE, NOTHING_ON_DISK, FAILED_TO_GET_PUBLISH,
     NO_PATH_FOUND, URL_UNSUPPORTED}

\* the placeholder the refresh of the last operation may write, by its case
ClaimedPlaceholder ==
    \/ /\ lastOp.op = "refresh_file_path_from_version"
       /\ inode.input = NO_PUBLISH
       /\ ~_validate_publish_data(inode.sgtk_publish_data)
    \/ /\ lastOp.op = "_refresh_file_path_from_node"
       /\ \/ inode.input = NO_NODE
             /\ ~hou_node(scene, inode.sgtk_work_file_data.node)
          \/ inode.input = NOTHING_ON_DISK
             /\ hou_node(scene, inode.sgtk_work_file_data.node)
             /\ inode.sgtk_work_file_data.all_versions = <<>>
    \/ /\ lastOp.op = "_refresh_file_path_from_path"
       /\ \/ inode.input = NO_FILE /\ inode.sgtk_file_path = NoStr
          \/ inode.input = NOTHING_ON_DISK
             /\ inode.sgtk_file_path # NoStr
             /\ inode.sgtk_file_data.all_versions = <<>>

\* C11: every path refresh of an import node (Publish, Work or File tab) ends
\* with the input parameter locked and holding a resolved path or the
\* placeholder of its case: 'No publish selected', 'No node selected',
\* 'No file selected' or 'Nothing on disk'.
C11_RefreshEndsLocked ==
    lastOp.op \in ImportRefreshOps =>
        /\ raised = "none"
        /\ inode.locked
        /\ inode.input \notin ErrorStrings \/ ClaimedPlaceholder

-----------------------------------------------------------------------------
(* NodeHandlerBase.populate_versions: the item generator of the version     *)
(* menu, on an export node and on an import node.                           *)

RECURSIVE chain_zip(_)
\* list(itertools.chain(*zip(versions, versions)))
chain_zip(versions) ==
    IF Len(versions) = 0 THEN <<>>
    ELSE <<versions[1], versions[1]>> \o chain_zip(Tail(versions))

\* faulty variant: every token once, without its label
_populate_versions_tokens_only(all_versions, policies) ==
    Map(str, all_versions) \o policies

\* NodeHandlerBase._populate_versions, given self._get_all_versions(node) and
\* self.VERSION_POLICIES; map() gives a list (Python 2), which extend() grows
_populate_versions(all_versions, policies) ==
    chain_zip(Map(str, all_versions) \o policies)

\* NodeHandlerBase.populate_versions on an export node
populate_versions(n) == _populate_versions(_get_all_versions(n), VERSION_POLICIES)

\* NodeHandlerBase.populate_versions on an import node
Import_populate_versions(n) ==
    _populate_versions(Import_get_all_versions(n), Import_VERSION_POLICIES)

\* the version numbers stored on a node: one digit and two digits
MenuVersions == (1..(MaxVersion + 1)) \cup {MaxVersion + 8}
MenuVersionLists == SeqsUpTo(MenuVersions, MaxLen)

\* the export node stores the versions as ",".join(map(str, all_versions)), the
\* import node as the JSON list of versions and statuses
InitMenu ==
    /\ disk = {}
    /\ extra_args = CHOOSE args \in ExtraArgsChoices : TRUE
    /\ raised = "none"
    /\ lastOp = Op("init", "")
    /\ ret = NoRet
    /\ warned = FALSE
    /\ cls = NoCls
    /\ shotgun = Unused /\ scene = Unused /\ files = Unused /\ ev = Unused
    /\ \E a \in MenuVersionLists :
        /\ rv = [NoRv EXCEPT !.all_versions = a]
        /\ node = [add_sgtk_parms(BareNode) EXCEPT
                      !.sgtk_all_versions = join(<<",">>, Map(str, a))]
        /\ inode = [Import_add_sgtk_parms(BareImportNode) EXCEPT
                       !.sgtk_all_versions =
                           [i \in 1..Len(a) |-> [version |-> a[i], status |-> "ip"]]]

\* Houdini asks for the items of the version menu of the export node
PopulateVersions ==
    /\ ret' = [NoRet EXCEPT !.items = populate_versions(node)]
    /\ lastOp' = Op("populate_versions", "node")
    /\ raised' = "none"
    /\ UNCHANGED <<node, disk, extra_args, warned, rv, cls, import>>

\* Houdini asks for the items of the version menu of the import node
ImportPopulateVersions ==
    /\ ret' = [NoRet EXCEPT !.items = Import_populate_versions(inode)]
    /\ lastOp' = Op("populate_versions", "inode")
    /\ raised' = "none"
    /\ UNCHANGED <<node, disk, extra_args, warned, rv, cls, import>>

NextMenu == PopulateVersions \/ ImportPopulateVersions

SpecMenu == InitMenu /\ [][NextMenu]_vars

\* the version policies of the handler of the node populate_versions was called on
PoliciesOf(op) == IF op.parm = "node" THEN VERSION_POLICIES ELSE Import_VERSION_POLICIES

\* items holds every entry of tokens twice in a row, in the order of tokens
TokenLabelPairs(items, tokens) ==
    /\ Len(items) = 2 * Len(tokens)
    /\ \A i \in 1..Len(tokens) :
           items[2 * i - 1] = tokens[i] /\ items[2 * i] = tokens[i]

\* C12: populate_versions returns a flat list of token/label pairs: the decimal
\* string of each stored version twice, in stored order, then each entry of
\* VERSION_POLICIES twice; with no stored version only the policy pairs; it
\* returns normally and leaves the node as it was.
C12_PopulateVersionsPairs ==
    [][lastOp'.op = "populate_versions" =>
           /\ raised' = "none"
           /\ node' = node /\ inode' = inode
           /\ TokenLabelPairs(ret'.items,
                  [i \in 1..Len(rv.all_versions) |-> str(rv.all_versions[i])]
                      \o PoliciesOf(lastOp'))
           /\ rv.all_versions = <<>> =>
                  ret'.items = chain_zip(PoliciesOf(lastOp'))]_vars

\* versions 1,2,3 on an export node give 1,1,2,2,3,3,<NEXT>,<NEXT>
C12_Witness ==
    /\ lastOp = Op("populate_versions", "node")
    /\ node.sgtk_all_versions = <<"1", ",", "2", ",", "3">>
    /\ ret.items = <<<<"1">>, <<"1">>, <<"2">>, <<"2">>, <<"3">>, <<"3">>,
                     NEXT_VERSION_STR, NEXT_VERSION_STR>>

-----------------------------------------------------------------------------
(* NodeHandlerBase.activate_sgtk, which loader hooks call, on an export     *)
(* node and on an import node.                                              *)

\* faulty variant: Use Shotgun is set and _enable_sgtk runs whatever the state
activate_sgtk_always(n) ==
    Enabled(Outcome(_enable_sgtk([n EXCEPT !.use_sgtk = TRUE], TRUE), "none"), 1)

\* NodeHandlerBase.activate_sgtk on an export node
activate_sgtk(n) ==
    IF n.use_sgtk THEN Enabled(Outcome(n, "none"), 0)
    ELSE Enabled(Outcome(_enable_sgtk([n EXCEPT !.use_sgtk = TRUE], TRUE), "none"), 1)

\* a loader hook activates Shotgun on the export node
ActivateSgtk ==
    /\ node.has_folder
    /\ \E out \in {activate_sgtk(node)} :
           Finish([Op("activate_sgtk", "node") EXCEPT
                      !.value = Calls("_enable_sgtk", out.enabled)],
                  out)

NextActivate ==
    \/ OnCreated
    \/ EditParm
    \/ ToggleUseSgtk
    \/ ActivateSgtk
    \/ ImportOnCreated
    \/ ImportToggleUseSgtk
    \/ ImportActivateSgtk

SpecActivate == InitImport /\ [][NextActivate]_vars

\* what one call of activate_sgtk did to a node, and the calls it made
ActivatedIfNot(before, after, calls) ==
    /\ before.use_sgtk => after = before /\ calls = <<>>
    /\ ~before.use_sgtk =>
           /\ after.use_sgtk
           /\ after.locked
           /\ calls = <<"_enable_sgtk">>

\* C13: activate_sgtk activates only if not already active: with use_sgtk on
\* the call changes nothing on the node; with use_sgtk off, use_sgtk becomes
\* true and _enable_sgtk(node, True) runs exactly once, which locks the output
\* (input) parameter; a second call in a row changes nothing more.
C13_ActivateOnlyIfNot ==
    [][lastOp'.op = "activate_sgtk" =>
           /\ lastOp'.parm = "node" =>
                  /\ ActivatedIfNot(node, node', lastOp'.value)
                  /\ inode' = inode
           /\ lastOp'.parm = "inode" =>
                  /\ ActivatedIfNot(inode, inode', lastOp'.value)
                  /\ node' = node
           /\ (lastOp.op = "activate_sgtk" /\ lastOp.parm = lastOp'.parm) =>
                  /\ node' = node /\ inode' = inode
                  /\ lastOp'.value = <<>>]_vars

\* Use Shotgun was switched off on the export node and activate_sgtk switched
\* it on again
C13_Witness ==
    /\ lastOp.op = "activate_sgtk"
    /\ lastOp.parm = "node"
    /\ lastOp.value = <<"_enable_sgtk">>
    /\ node.use_sgtk /\ node.locked

-----------------------------------------------------------------------------
(* ImportNodeHandler._resolve_version on the list that                      *)
(* _resolve_all_versions_statuses reads from Shotgun.                       *)

\* what the version menu evaluates to: a policy, a number, or nothing
ImportCurrents ==
    Elems(Import_VERSION_POLICIES) \cup {NoStr} \cup {str(k) : k \in 0..MaxCurrent}

InitImportResolve ==
    /\ node = BareNode
    /\ disk = {}
    /\ extra_args = CHOOSE args \in ExtraArgsChoices : TRUE
    /\ raised = "none"
    /\ lastOp = Op("init", "")
    /\ ret = NoRet
    /\ warned = FALSE
    /\ cls = NoCls
    /\ inode = Unused /\ scene = Unused /\ files = Unused /\ ev = Unused
    /\ shotgun \in ShotgunStates
    /\ rv \in {[NoRv EXCEPT !.current = c] : c \in ImportCurrents}

\* the versions are listed and the current entry is resolved
ImportResolveVersion ==
    /\ ~rv.done
    /\ ~Import_resolve_version_raises(rv.current)
    /\ \E listed \in {_resolve_all_versions_statuses(shotgun, sg_data(1))} :
           rv' = [rv EXCEPT !.all_versions = listed,
                            !.result = Import_resolve_version(listed, rv.current),
                            !.done = TRUE]
    /\ raised' = "none"
    /\ lastOp' = Op("_resolve_version", "inode")
    /\ UNCHANGED <<node, disk, extra_args, ret, warned, cls, import>>

\* int(current) raises ValueError
ImportResolveVersionFails ==
    /\ ~rv.done
    /\ Import_resolve_version_raises(rv.current)
    /\ rv' = [rv EXCEPT
                 !.all_versions = _resolve_all_versions_statuses(shotgun, sg_data(1)),
                 !.done = TRUE]
    /\ raised' = "ValueError"
    /\ lastOp' = Op("_resolve_version", "inode")
    /\ UNCHANGED <<node, disk, extra_args, ret, warned, cls, import>>

NextImportResolve == ImportResolveVersion \/ ImportResolveVersionFails

SpecImportResolve == InitImportResolve /\ [][NextImportResolve]_vars

\* the versions _resolve_all_versions_statuses listed
Listed == Elems(_extract_versions(rv.all_versions))

\* the listed versions whose publish is complete
ListedComplete == {v \in Listed : shotgun[v] = "cmpt"}

\* _resolve_version returned a value
ImportResolved == rv.done /\ lastOp = Op("_resolve_version", "inode") /\ raised = "none"

\* the version policies, applied to the listed versions
C14_Policies ==
    ImportResolved =>
        /\ Listed = {} => rv.result = 1
        /\ (Listed # {} /\ rv.current = LATEST_POLICY) => rv.result = Max(Listed)
        /\ (Listed # {} /\ rv.current = LATEST_COMPLETE_POLICY) =>
               rv.result = IF ListedComplete # {} THEN Max(ListedComplete)
                           ELSE Max(Listed)
        /\ (Listed # {} /\ IsNumeric(rv.current)) =>
               rv.result = IF int(rv.current) \in Listed THEN int(rv.current)
                           ELSE Max(Listed)

\* no declined publish is listed
C14_DeclinedNotListed ==
    rv.done => \A v \in 1..MaxVersion : shotgun[v] = "decl" => v \notin Listed

\* C14 (as claimed): _resolve_version applies the version policy: <LATEST> gives
\* the highest listed version; <LATEST COMPLETE> the highest version of status
\* cmpt, or the highest listed one when none is complete; a number gives
\* itself when listed and the highest listed version otherwise; with no listed
\* version every policy gives 1; declined publishes are never listed, so the
\* resolved version is never a declined publish.
C14_DeclinedNeverResolved ==
    /\ C14_Policies
    /\ C14_DeclinedNotListed
    /\ ImportResolved =>
           \A v \in 1..MaxVersion : shotgun[v] = "decl" => rv.result # v

-----------------------------------------------------------------------------
(* The event scripts of houdini/scripts, which Houdini runs on node events. *)

\* the session a script runs in: sgtk cannot be imported, sgtk can be imported
\* but no engine is running, or an engine is running
Environments == {"no sgtk", "no engine", "engine"}

\* the node types of the session
NodeTypes == {"alembic", "file"}

\* the script ends without an exception and without a call
Silent == [raised |-> "none", calls |-> <<>>]

\* the script ends after one call of a handler method with the node
Called(method) == [raised |-> "none", calls |-> <<method>>]

\* an exception escapes the script
Escapes(exception) == [raised |-> exception, calls |-> <<>>]

\* import sgtk succeeds
sgtk_imports(e) == e.environment # "no sgtk"

\* sgtk.platform.current_engine() is not None
current_engine(e) == e.environment = "engine"

\* engine.node_handler(node) is not None; also: an entry of the node_handlers
\* setting has the node_type of the node
node_handler(e) == e.node_type \in e.node_handlers

\* OnCreated.py
run_on_created(e) ==
    IF ~sgtk_imports(e) THEN Silent
    ELSE IF ~current_engine(e) THEN Silent
    ELSE IF ~node_handler(e) THEN Silent
    ELSE Called("on_created")

\* OnDeleted.py
run_on_deleted(e) ==
    IF ~sgtk_imports(e) THEN Silent
    ELSE IF ~current_engine(e) THEN Silent
    ELSE IF ~node_handler(e) THEN Silent
    ELSE Called("on_deleted")

\* OnNameChanged.py
run_on_name_changed(e) ==
    IF ~sgtk_imports(e) THEN Silent
    ELSE IF ~current_engine(e) THEN Silent
    ELSE IF ~node_handler(e) THEN Silent
    ELSE Called("on_name_changed")

\* OnUpdated.py
run_on_updated(e) ==
    IF ~sgtk_imports(e) THEN Silent
    ELSE IF ~current_engine(e) THEN Silent
    ELSE IF ~node_handler(e) THEN Silent
    ELSE Called("on_updated")

\* AfterLastDelete.py
run_after_last_delete(e) ==
    IF ~sgtk_imports(e) THEN Silent
    ELSE IF ~current_engine(e) THEN Silent
    ELSE IF ~node_handler(e) THEN Silent
    ELSE Called("after_last_delete")

\* OnLoaded.py: the ImportError is passed over, so the name sgtk is unbound
\* in the next statement; the engine is used without a test
run_on_loaded(e) ==
    IF ~sgtk_imports(e) THEN Escapes("UnboundLocalError")
    ELSE IF ~current_engine(e) THEN Escapes("AttributeError")
    ELSE IF ~node_handler(e) THEN Silent
    ELSE Called("on_loaded")

\* the loop over the node_handlers setting: the hook of the first entry of
\* the node type is executed
execute_hook_expression(e, method) ==
    IF node_handler(e) THEN Called(method) ELSE Silent

\* BeforeFirstCreate.py
run_before_first_create(e) ==
    IF ~sgtk_imports(e) THEN Escapes("UnboundLocalError")
    ELSE IF ~current_engine(e) THEN Escapes("AttributeError")
    ELSE execute_hook_expression(e, "before_first_create")

\* OnInputChanged.py
run_on_input_changed(e) ==
    IF ~sgtk_imports(e) THEN Escapes("UnboundLocalError")
    ELSE IF ~current_engine(e) THEN Escapes("AttributeError")
    ELSE execute_hook_expression(e, "on_input_changed")

InitEvents ==
    /\ node = BareNode
    /\ disk = {}
    /\ extra_args = CHOOSE args \in ExtraArgsChoices : TRUE
    /\ raised = "none"
    /\ lastOp = Op("init", "")
    /\ ret = NoRet
    /\ warned = FALSE
    /\ rv = NoRv
    /\ cls = NoCls
    /\ inode = Unused /\ shotgun = Unused /\ scene = Unused /\ files = Unused
    /\ ev \in [environment : Environments, node_type : NodeTypes,
               node_handlers : SUBSET NodeTypes, calls : {<<>>}]

\* Houdini runs a script; what it called and what escaped it are recorded
RunScript(script, result) ==
    /\ ev' = [ev EXCEPT !.calls = result.calls]
    /\ raised' = result.raised
    /\ lastOp' = Op(script, "")
    /\ UNCHANGED <<node, disk, extra_args, ret, warned, rv, cls,
                   inode, shotgun, scene, files>>

EventOnCreated ==
    /\ RunScript("OnCreated", run_on_created(ev))

EventOnDeleted ==
    /\ RunScript("OnDeleted", run_on_deleted(ev))

EventOnLoaded ==
    /\ RunScript("OnLoaded", run_on_loaded(ev))

EventOnNameChanged ==
    /\ RunScript("OnNameChanged", run_on_name_changed(ev))

EventOnUpdated ==
    /\ RunScript("OnUpdated", run_on_updated(ev))

EventOnInputChanged ==
    /\ RunScript("OnInputChanged", run_on_input_changed(ev))

EventBeforeFirstCreate ==
    /\ RunScript("BeforeFirstCreate", run_before_first_create(ev))

EventAfterLastDelete ==
    /\ RunScript("AfterLastDelete", run_after_last_delete(ev))


NextEvents ==
    \/ EventOnCreated
    \/ EventOnDeleted
    \/ EventOnLoaded
    \/ EventOnNameChanged
    \/ EventOnUpdated
    \/ EventOnInputChanged
    \/ EventBeforeFirstCreate
    \/ EventAfterLastDelete

SpecEvents == InitEvents /\ [][NextEvents]_vars

\* the handler method named after each event
MethodOfEvent ==
    [OnCreated |-> "on_created", OnDeleted |-> "on_deleted",
     OnLoaded |-> "on_loaded", OnNameChanged |-> "on_name_changed",
     OnUpdated |-> "on_updated", OnInputChanged |-> "on_input_changed",
     BeforeFirstCreate |-> "before_first_create",
     AfterLastDelete |-> "after_last_delete"]

\* an event script has run
ScriptRan == lastOp.op \in DOMAIN MethodOfEvent

\* C15 (as claimed): every event script raises nothing and calls no handler
\* method when sgtk cannot be imported, when no engine is running or when the
\* engine has no handler for the node; otherwise it calls exactly the handler
\* method named after the event, once, with the node.
C15_EventScriptsSilent ==
    ScriptRan =>
        /\ raised = "none"
        /\ ev.calls = IF ev.environment = "engine" /\ ev.node_type \in ev.node_handlers
                      THEN <<MethodOfEvent[lastOp.op]>>
                      ELSE <<>>

-----------------------------------------------------------------------------
(* ImportNodeHandler._resolve_all_versions_from_path on paths and files.    *)

\* the paths of the File tab and of the parameters of other nodes: with a
\* version token, a frame variable, both or neither
InputPaths ==
    {<<"p", "v", "1", ".", FrameVariable, ".", "x">>,
     <<"p", "v", "1", ".", WideFrameVariable, ".", "x">>,
     <<"p", "v", "0", "1", ".", "x">>,
     <<"p", ".", FrameVariable, ".", "x">>,
     <<"p", ".", "x">>}

\* the files that may be on disk: frames of four and of six places, the same
\* version twice, a version of two digits, no version token, another name
FileNames ==
    {<<"p", "v", "1", ".", "0", "0", "0", "1", ".", "x">>,
     <<"p", "v", "2", ".", "0", "0", "0", "1", ".", "x">>,
     <<"p", "v", "2", ".", "0", "0", "0", "2", ".", "x">>,
     <<"p", "v", "1", "0", ".", "0", "0", "0", "1", ".", "x">>,
     <<"p", "v", "3", ".", "0", "0", "0", "0", "0", "1", ".", "x">>,
     <<"p", ".", "0", "0", "0", "1", ".", "x">>,
     <<"p", "v", "0", "2", ".", "x">>,
     <<"p", ".", "x">>,
     <<"q", "v", "3", ".", "0", "0", "0", "1", ".", "x">>}

InitPath ==
    /\ node = BareNode
    /\ disk = {}
    /\ extra_args = CHOOSE args \in ExtraArgsChoices : TRUE
    /\ raised = "none"
    /\ lastOp = Op("init", "")
    /\ ret = NoRet
    /\ warned = FALSE
    /\ rv = NoRv
    /\ cls = NoCls
    /\ inode = Unused /\ shotgun = Unused /\ ev = Unused
    /\ files \in {fs \in SUBSET FileNames : Cardinality(fs) <= MaxFiles}
    /\ scene \in {[NoScene EXCEPT !.path = path] : path \in InputPaths}

\* the versions of the path of the scene are looked up on disk
ResolveAllVersionsFromPath ==
    /\ ~rv.done
    /\ rv' = [rv EXCEPT !.all_versions =
                            _resolve_all_versions_from_path(files, scene.path),
                        !.done = TRUE]
    /\ raised' = "none"
    /\ lastOp' = Op("_resolve_all_versions_from_path", "")
    /\ UNCHANGED <<node, disk, extra_args, ret, warned, cls, import>>

\* a file is written to disk or removed from it before the lookup
ChangeFiles ==
    \E f \in FileNames :
        /\ ~rv.done
        /\ files' = IF f \in files THEN files \ {f} ELSE files \cup {f}
        /\ Cardinality(files') <= MaxFiles
        /\ lastOp' = Op("change_files", "")
        /\ UNCHANGED <<node, disk, extra_args, raised, ret, warned, rv, cls,
                       inode, shotgun, scene, ev>>

NextPath == ResolveAllVersionsFromPath \/ ChangeFiles

SpecPath == InitPath /\ [][NextPath]_vars

RECURSIVE Wildcarded(_, _)
\* the path from position i on, with every v<digits> token and every frame
\* variable replaced by a wildcard
Wildcarded(path, i) ==
    IF i > Len(path) THEN <<>>
    ELSE IF VersionAt(path, i)
    THEN <<"*">> \o Wildcarded(path, DigitRun(path, i + 1))
    ELSE IF path[i] \in {FrameVariable, WideFrameVariable}
    THEN <<"*">> \o Wildcarded(path, i + 1)
    ELSE <<path[i]>> \o Wildcarded(path, i + 1)

\* the files on disk that match the wildcarded path
MatchingFiles == {f \in files : fnmatch(f, Wildcarded(scene.path, 1))}

\* the version numbers the matching files carry
MatchingVersions ==
    {int(version_match_group(f)) : f \in {g \in MatchingFiles : version_match(g)}}

\* C16 (as claimed): _resolve_all_versions_from_path returns, without
\* duplicates, the version numbers of the files on disk that match the path
\* with its v<digits> token and its frame number wildcarded; [1] when files
\* match but none of them has a version token; the empty list when no file
\* matches.
C16_VersionsOnDisk ==
    (rv.done /\ lastOp.op = "_resolve_all_versions_from_path") =>
        /\ Cardinality(Elems(rv.all_versions)) = Len(rv.all_versions)
        /\ MatchingFiles = {} => rv.all_versions = <<>>
        /\ (MatchingFiles # {} /\ MatchingVersions = {}) => rv.all_versions = <<1>>
        /\ MatchingVersions # {} => Elems(rv.all_versions) = MatchingVersions

====
